---- MODULE Spec2Model ----
(***************************************************************************)
(* Purchase orders and GL accounts: the two NestJS services of the         *)
(* backend over the relational store described by schema.prisma and the    *)
(* migration.  Every service method is a sequence of awaited store calls;  *)
(* each awaited call is one atomic step, so requests of different clients  *)
(* interleave between their store calls exactly as the event loop allows.  *)
(*                                                                         *)
(* Decimal values (quantity, unitPrice, amount, totalAmount) are integers  *)
(* counting ten-thousandths: 25.99 is 259900, 0.005 is 50.  A product of   *)
(* two values with two fractional digits has at most four, so the          *)
(* arithmetic of Decimal is exact in this representation.                  *)
(***************************************************************************)
EXTENDS Integers, Sequences, FiniteSets, TLC

VARIABLES
    orders,     \* rows of purchase_orders
    lineItems,  \* rows of purchase_order_line_items
    accounts,   \* rows of gl_accounts
    proc,       \* per client: the request in flight or the last response
    env,        \* the environment of the run: clients and what they submit
    hook        \* the state of the frontend's list hooks

vars == <<orders, lineItems, accounts, proc, env, hook>>

(***************************************************************************)
(* Bounds of the model.                                                    *)
(***************************************************************************)
MaxOrders == 2      \* purchase orders stored at a time
MaxLines == 2       \* line-item rows of one order stored at a time
MaxAccounts == 3    \* GL accounts stored at a time
MaxPayload == 2     \* length of a lineItems array in a request
MaxTied == 3        \* rows of a listed table that are equal in a sort field
MaxPage == 4        \* page number of a findAll

MaxClock == 3       \* the clock of a run that keeps creation times
MaxTimers == 1      \* timers of usePurchaseOrders that have not fired

Clients == {1, 2}

\* The connections requests travel on: one for each client, and two more
\* for the frontend, whose hooks have up to four requests in flight.
Connections == {1, 2, 3, 4}
PoNumbers == {"PO-1", "PO-2"}
AccountCodes == {"1000", "2000"}
NoValue == "undefined"   \* an optional string field that is absent
NoId == 0                \* an optional id that is absent
NoDecimal == 0 - 1       \* an optional quantity, unitPrice or amount that is absent

\* if (x), x && y, x || y on an optional string: the absent string and the
\* empty string are both falsy.
Truthy(text) == text # NoValue /\ text # ""

(***************************************************************************)
(* Decimal arithmetic and the DECIMAL(10, 2) columns.                      *)
(***************************************************************************)
\* A value written to a DECIMAL(10, 2) column: MySQL rounds the excess
\* fractional digits half away from zero (all values here are >= 0).
ToDecimal2(x) == ((x + 50) \div 100) * 100

\* Decimal.mul: the exact product.  Both operands have at most two fractional
\* digits (the DTOs' maxDecimalPlaces, the DECIMAL(10, 2) columns), so they are
\* whole numbers of hundredths and the product a whole number of ten-thousandths.
calculateLineItemAmount(quantity, unitPrice) ==
    (quantity \div 100) * (unitPrice \div 100)

\* lineItems.reduce((total, item) => total.add(item.amount), new Decimal(0))
RECURSIVE calculateTotalAmount(_)
calculateTotalAmount(items) ==
    IF items = <<>> THEN 0
    ELSE Head(items).amount + calculateTotalAmount(Tail(items))

\* The rows of a findMany as an array (the store's order, here by id).
RECURSIVE RowsToArray(_)
RowsToArray(rows) ==
    IF rows = {} THEN <<>>
    ELSE LET r == CHOOSE x \in rows : \A y \in rows : x.id <= y.id
         IN <<r>> \o RowsToArray(rows \ {r})

(***************************************************************************)
(* Text columns.  The tables are created with the collation                *)
(* utf8mb4_unicode_ci, under which the store compares every text.          *)
(***************************************************************************)
\* A collation that tells the cases of a letter apart.
FoldNothing(c) == c

\* The tables' collation utf8mb4_unicode_ci compares letters without regard
\* to case: the character a letter is compared as.
Fold(c) ==
    CASE c = "A" -> "a" [] c = "B" -> "b" [] c = "C" -> "c" [] c = "D" -> "d"
      [] c = "E" -> "e" [] c = "F" -> "f" [] c = "G" -> "g" [] c = "H" -> "h"
      [] c = "I" -> "i" [] c = "J" -> "j" [] c = "K" -> "k" [] c = "L" -> "l"
      [] c = "M" -> "m" [] c = "N" -> "n" [] c = "O" -> "o" [] c = "P" -> "p"
      [] c = "Q" -> "q" [] c = "R" -> "r" [] c = "S" -> "s" [] c = "T" -> "t"
      [] c = "U" -> "u" [] c = "V" -> "v" [] c = "W" -> "w" [] c = "X" -> "x"
      [] c = "Y" -> "y" [] c = "Z" -> "z" [] OTHER -> c

\* The characters of the texts that the requests of the runs store.  A
\* value that is none of them (the absent one) is a single symbol here, the
\* same as itself only.
Text(text) ==
    CASE text = "1000" -> <<"1", "0", "0", "0">>
      [] text = "2000" -> <<"2", "0", "0", "0">>
      [] text = "3000" -> <<"3", "0", "0", "0">>
      [] text = "Cash" -> <<"C", "a", "s", "h">>
      [] text = "Accounts Payable" -> <<"A", "c", "c", "o", "u", "n", "t", "s", " ", "P", "a", "y", "a", "b", "l", "e">>
      [] text = "PO-1" -> <<"P", "O", "-", "1">>
      [] text = "PO-2" -> <<"P", "O", "-", "2">>
      [] text = "po-1" -> <<"p", "o", "-", "1">>
      [] text = "PO-1 " -> <<"P", "O", "-", "1", " ">>
      [] text = "CASH" -> <<"C", "A", "S", "H">>
      [] text = "cash" -> <<"c", "a", "s", "h">>
      [] text = "1000 " -> <<"1", "0", "0", "0", " ">>
      [] text = "" -> <<>>
      [] OTHER -> <<text>>

\* A text column of a row, as characters: the runs that list tables given
\* at the start hold their texts as characters (env.chars), the rows that
\* create and update store hold them whole.
AsText(text) == IF env.chars THEN text ELSE Text(text)

\* The characters of a status, which the store holds as text; any other
\* value is a single symbol.
StatusText(status) ==
    CASE status = "DRAFT" -> <<"D", "R", "A", "F", "T">>
      [] status = "SUBMITTED" -> <<"S", "U", "B", "M", "I", "T", "T", "E", "D">>
      [] status = "APPROVED" -> <<"A", "P", "P", "R", "O", "V", "E", "D">>
      [] status = "REJECTED" -> <<"R", "E", "J", "E", "C", "T", "E", "D">>
      [] status = "COMPLETED" -> <<"C", "O", "M", "P", "L", "E", "T", "E", "D">>
      [] status = "CANCELLED" -> <<"C", "A", "N", "C", "E", "L", "L", "E", "D">>
      [] status = "draft" -> <<"d", "r", "a", "f", "t">>
      [] status = "" -> <<>>
      [] OTHER -> <<status>>

\* a = b under the collation, as the store compares two texts in a WHERE
\* clause and in a unique index: letter by letter without regard to case,
\* and PAD SPACE, the shorter text compared as if spaces followed it.
RECURSIVE SameChars(_, _)
SameChars(a, b) ==
    IF a = <<>> /\ b = <<>> THEN TRUE
    ELSE LET x == IF a = <<>> THEN " " ELSE Head(a)
             y == IF b = <<>> THEN " " ELSE Head(b)
         IN /\ Fold(x) = Fold(y)
            /\ SameChars(IF a = <<>> THEN a ELSE Tail(a),
                         IF b = <<>> THEN b ELSE Tail(b))

(***************************************************************************)
(* The store: lookups, constraints and writes.                             *)
(***************************************************************************)
\* prisma.purchaseOrder.findUnique({ where: { id } })
FindOrderById(id) == {o \in orders : o.id = id}

\* prisma.purchaseOrder.findUnique({ where: { poNumber } })
FindOrderByPoNumber(poNumber) ==
    {o \in orders : SameChars(AsText(o.poNumber), AsText(poNumber))}

\* prisma.purchaseOrderLineItem.findMany({ where: { purchaseOrderId } })
FindLineItems(purchaseOrderId) ==
    {l \in lineItems : l.purchaseOrderId = purchaseOrderId}

\* A store without the unique index on poNumber.
PoNumberNeverTaken(poNumber, id) == FALSE

\* UNIQUE INDEX purchase_orders_poNumber_key: would a row `id` holding
\* `poNumber` collide with another row?
PoNumberTaken(poNumber, id) ==
    \E o \in orders :
        SameChars(AsText(o.poNumber), AsText(poNumber)) /\ o.id # id

\* FOREIGN KEY glAccountId REFERENCES gl_accounts(id)
GlAccountExists(glAccount) == \E a \in accounts : a.id = glAccount

\* A store without the foreign key on purchaseOrderId.
OrderAlwaysExists(purchaseOrderId) == TRUE

\* FOREIGN KEY purchaseOrderId REFERENCES purchase_orders(id)
OrderExists(purchaseOrderId) == FindOrderById(purchaseOrderId) # {}

\* The elements of an array.
Range(array) == {array[i] : i \in 1..Len(array)}

\* The n least elements of S, in order.
RECURSIVE Least(_, _)
Least(S, n) ==
    IF n = 0 \/ S = {} THEN <<>>
    ELSE LET m == CHOOSE x \in S : \A y \in S : x <= y
         IN <<m>> \o Least(S \ {m}, n - 1)

\* @default(uuid()): n new identifiers.  A uuid is one that nothing holds,
\* no row, no request, no response and no display.  Identifiers are only
\* ever compared for equality, so the model takes the least numbers that
\* nothing in the state mentions: there always are such, and a number that
\* is mentioned nowhere any more is as good as new.
Fresh(used, n) == Least((1..(Cardinality(used) + n)) \ used, n)

PoOps == {"poCreate", "poUpdate", "poRemove", "poFindOne", "poFindAll"}

GlOps == {"glCreate", "glUpdate", "glRemove", "glFindAll"}

\* The identifiers that requests of the operations `ops` name.
NamedIds(ops) ==
    {proc[q].id : q \in {c \in DOMAIN proc : proc[c].op \in ops}}

NamedLineIds ==
    UNION {{proc[q].dto.lineItems[i].id : i \in 1..Len(proc[q].dto.lineItems)} :
              q \in DOMAIN proc}

NamedAccountIds ==
    UNION {{proc[q].dto.lineItems[i].glAccount :
               i \in 1..Len(proc[q].dto.lineItems)} : q \in DOMAIN proc}

\* The identifiers of the rows a list hook of the frontend displays.
ShownIds(h) == {hook[h].records[i].id : i \in 1..Len(hook[h].records)}

\* The rows that responses and requests of the operations `ops` carry.
Carried(ops) ==
    UNION {Range(proc[q].found.data)
           \cup (IF proc[q].row.id = NoId THEN {} ELSE {proc[q].row}) :
              q \in {c \in DOMAIN proc : proc[c].op \in ops}}

\* Every order and every account that is stored, displayed, on its way in
\* a response, or remembered from before a request.
MentionedOrders ==
    orders \cup Range(hook["po"].records) \cup Carried(PoOps)
    \cup UNION {proc[q].before.orders : q \in DOMAIN proc}

MentionedAccounts ==
    accounts \cup Range(hook["gl"].records) \cup Carried(GlOps)
    \cup UNION {proc[q].before.accounts : q \in DOMAIN proc}

MentionedLineItems ==
    lineItems \cup UNION {proc[q].before.lineItems : q \in DOMAIN proc}

UsedOrderIds ==
    {o.id : o \in MentionedOrders} \cup NamedIds(PoOps)
    \cup {l.purchaseOrderId : l \in MentionedLineItems}

UsedLineIds == {l.id : l \in MentionedLineItems} \cup NamedLineIds

UsedAccountIds ==
    {a.id : a \in MentionedAccounts} \cup NamedIds(GlOps)
    \cup NamedAccountIds \cup {l.glAccount : l \in MentionedLineItems}

\* The identifiers a request may name: those of the rows that are stored or
\* displayed, and, from a client that is no page of the frontend, others.
KnownOrderIds ==
    (IF env.mounted = {} THEN 1..MaxOrders ELSE {})
    \cup {o.id : o \in orders} \cup ShownIds("po")

KnownAccountIds ==
    (IF env.mounted = {} THEN 1..MaxAccounts ELSE {})
    \cup {a.id : a \in accounts} \cup ShownIds("gl")

\* createdAt DateTime @default(now()).  The runs that keep a clock
\* (env.clock > 0) record it: a row is created later than every row of its
\* table that the state mentions.  The other runs leave the column out.
Now(rows) ==
    LET times == {r.createdAt : r \in rows} \cup {0}
    IN 1 + CHOOSE t \in times : \A u \in times : u <= t

\* The clock of a run ends at env.clock: a create is sent only when it and
\* the creates before it will be stamped in time.
InTime(rows, pending) ==
    env.clock > 0 => Now(rows) + pending <= env.clock

Stamp(row, rows) ==
    IF env.clock = 0 THEN row ELSE row @@ [createdAt |-> Now(rows)]

\* An insert that stores the first element of the array only.
NewLineRowsFirstOnly(purchaseOrderId, data) ==
    {[id |-> Fresh(UsedLineIds, 1)[1],
      purchaseOrderId |-> purchaseOrderId,
      quantity |-> ToDecimal2(data[1].quantity),
      unitPrice |-> ToDecimal2(data[1].unitPrice),
      glAccount |-> data[1].glAccount,
      amount |-> ToDecimal2(data[1].amount)]}

\* Rows for an array of line-item data, with fresh identifiers in array order;
\* quantity, unitPrice and amount are stored in DECIMAL(10, 2) columns.
NewLineRows(purchaseOrderId, data) ==
    {[id |-> Fresh(UsedLineIds, Len(data))[i],
      purchaseOrderId |-> purchaseOrderId,
      quantity |-> ToDecimal2(data[i].quantity),
      unitPrice |-> ToDecimal2(data[i].unitPrice),
      glAccount |-> data[i].glAccount,
      amount |-> ToDecimal2(data[i].amount)] : i \in 1..Len(data)}

\* The error of inserting line-item rows, if any (Prisma's error code).
LineInsertError(purchaseOrderId, data) ==
    IF ~OrderExists(purchaseOrderId) THEN "P2003"
    ELSE IF \E i \in 1..Len(data) : ~GlAccountExists(data[i].glAccount)
    THEN "P2003"
    ELSE "none"

(***************************************************************************)
(* Requests.                                                               *)
(***************************************************************************)
NoDto ==
    [poNumber |-> NoValue, status |-> NoValue, hasLineItems |-> FALSE,
     lineItems |-> <<>>, accountCode |-> NoValue, accountName |-> NoValue]

NoSnapshot == [orders |-> {}, lineItems |-> {}, accounts |-> {}]

\* The query of a findAll: an absent search is the empty string, an absent
\* date, page or limit is NoId, an absent status or sort is NoValue.
NoQuery ==
    [search |-> <<>>, startDate |-> NoId, endDate |-> NoId,
     status |-> NoValue, page |-> NoId, limit |-> NoId,
     sortBy |-> NoValue, sortOrder |-> NoValue, pageSize |-> NoId]

\* The PaginatedResponse of a findAll.
NoPage ==
    [data |-> <<>>, total |-> 0, page |-> 0, limit |-> 0, totalPages |-> 0]

\* No row: the body of a response that carries none.
NoRow == [id |-> NoId]

\* The row an update statement returns: the one it wrote.
Returned(rows) == IF rows = {} THEN NoRow ELSE CHOOSE r \in rows : TRUE

Idle ==
    [op |-> "none", pc |-> "idle", id |-> NoId, dto |-> NoDto,
     error |-> "none", result |-> "none", total |-> 0,
     before |-> NoSnapshot, query |-> NoQuery, found |-> NoPage,
     item |-> 0, amount |-> 0, row |-> NoRow]

\* The store as a request finds it, kept for the runs that compare a
\* response with the state before the request.
Snapshot ==
    IF env.history
    THEN [orders |-> orders, lineItems |-> lineItems, accounts |-> accounts]
    ELSE NoSnapshot

\* A client sends a request when it has none in flight and has taken the
\* response of its last one; with env.sequential, when no client has a
\* request in flight.
Ready(p) ==
    /\ p \in env.clients
    /\ proc[p].pc = "idle"
    /\ env.sequential => \A q \in env.clients : proc[q].pc \in {"idle", "done"}

Begin(p, op, id, dto, pc) ==
    [op |-> op, pc |-> pc, id |-> id, dto |-> dto, error |-> "none",
     result |-> "none", total |-> 0, before |-> Snapshot,
     query |-> NoQuery, found |-> NoPage, item |-> 0, amount |-> 0,
     row |-> NoRow]

\* The request is rejected at its first store call: `error` is what was
\* thrown, `result` the error kind the caller sees.
Reject(p, op, id, dto, error, result) ==
    [Begin(p, op, id, dto, "done") EXCEPT !.error = error, !.result = result]

\* The request ends: successfully, or with `error` thrown and `result` seen.
Respond(p, result) == [proc EXCEPT ![p].pc = "done", ![p].result = result]

Throw(p, error, result) ==
    [proc EXCEPT ![p].pc = "done", ![p].error = error, ![p].result = result]

\* The client takes the response.
Receive(p) ==
    /\ p \in env.clients
    /\ proc[p].pc = "done"
    /\ proc' = [proc EXCEPT ![p] = Idle]
    /\ UNCHANGED <<orders, lineItems, accounts, env, hook>>

\* Rows that requests in flight may still insert.
PendingOrders ==
    Cardinality({q \in Connections :
                    proc[q].op = "poCreate" /\ proc[q].pc = "persist"})

Kept(items) == Cardinality({i \in 1..Len(items) : ~items[i].del})

\* The rows an update inserts: the full replace every element not flagged
\* _delete, the differential variant those of them that carry no id.
Inserted(items) ==
    IF env.variant = "replace" THEN Kept(items)
    ELSE Cardinality({i \in 1..Len(items) :
                         ~items[i].del /\ items[i].id = NoId})

PendingLines(q, id) ==
    IF /\ proc[q].op = "poUpdate" /\ proc[q].id = id
       /\ proc[q].pc \in {"checkPoNumber", "lineItems", "createMany",
                          "diffDelete", "diffFindUnique", "diffUpdate",
                          "diffCreate"}
    THEN Inserted(proc[q].dto.lineItems)
    ELSE 0

RECURSIVE SumPendingLines(_, _)
SumPendingLines(S, id) ==
    IF S = {} THEN 0
    ELSE LET q == CHOOSE x \in S : TRUE
         IN PendingLines(q, id) + SumPendingLines(S \ {q}, id)

\* The model stores at most MaxOrders orders and MaxLines line items per
\* order: a request that may add rows is sent only when they will fit, and,
\* in a run that keeps a clock, when they will be stamped in time.  The
\* full replace deletes the order's rows before it inserts.  A request that
\* was sent waits for nothing at its insert.
HasRoomForOrder(items) ==
    /\ Cardinality(orders) + PendingOrders < MaxOrders
    /\ Len(items) <= MaxLines
    /\ InTime(MentionedOrders, PendingOrders)

HasRoomForLines(id, items) ==
    (IF env.variant = "replace" THEN 0
     ELSE Cardinality({l \in lineItems : l.purchaseOrderId = id}))
    + SumPendingLines(Connections, id) + Inserted(items) <= MaxLines

\* Arrays of at most n elements of S, at least m.
Arrays(S, m, n) == UNION {[1..k -> S] : k \in m..n}

(***************************************************************************)
(* PurchaseOrdersService.create                                            *)
(***************************************************************************)
\* The bodies of the create requests of a run.
CreateDtos ==
    {[NoDto EXCEPT !.poNumber = po, !.status = st,
                   !.hasLineItems = TRUE, !.lineItems = ls] :
        po \in env.createPoNumbers, st \in env.createStatuses,
        ls \in Arrays(env.createItems, 1, MaxPayload) \cup env.createArrays}

\* new Decimal(undefined) throws a DecimalError
DecimalThrows(items) ==
    \E i \in 1..Len(items) :
        items[i].quantity = NoDecimal \/ items[i].unitPrice = NoDecimal

\* Line items that keep the amount the request carried.
LineItemsWithRequestAmounts(items) == items

\* lineItemsWithAmounts: { ...item, quantity, unitPrice, amount }
LineItemsWithAmounts(items) ==
    [i \in 1..Len(items) |->
        [items[i] EXCEPT
            !.amount = calculateLineItemAmount(items[i].quantity,
                                               items[i].unitPrice)]]

\* A catch of create without the mapping of P2002.
CreateCatchWithoutP2002(error) ==
    IF error = "ConflictException" THEN "Conflict" ELSE "BadRequest"

\* A catch of create that does not rethrow the ConflictException.
CreateCatchWithoutRethrow(error) ==
    IF error = "P2002" THEN "Conflict" ELSE "BadRequest"

\* catch of create: a ConflictException is rethrown, P2002 on poNumber
\* becomes one, anything else a BadRequestException.
CreateCatch(error) ==
    IF error = "ConflictException" THEN "Conflict"
    ELSE IF error = "P2002" THEN "Conflict"
    ELSE "BadRequest"

\* status: createPurchaseOrderDto.status || 'DRAFT': an absent status and
\* the empty text are both falsy.
StatusOrDraft(status) == IF Truthy(status) THEN status ELSE "DRAFT"

\* The status that create hands to the store.  The copy of the service
\* with the differential update passes none, and the column's default,
\* DRAFT, is stored.
CreateStatus(status) ==
    IF env.variant = "differential" THEN "DRAFT" ELSE StatusOrDraft(status)

\* The ValidationPipe of main.ts (whitelist, forbidNonWhitelisted) on the
\* body of POST /purchase-orders: CreatePurchaseOrderDto declares poNumber
\* (@IsNotEmpty) and lineItems (@ArrayMinSize(1)) and no status, and
\* CreatePurchaseOrderLineItemDto declares quantity and unitPrice
\* (@IsNumber({ maxDecimalPlaces: 2 }), @IsPositive) and no amount; a body
\* with a key that is not declared is refused.
CreateBodyValid(dto) ==
    /\ dto.status = NoValue
    /\ Truthy(dto.poNumber)
    /\ Len(dto.lineItems) >= 1
    /\ \A i \in 1..Len(dto.lineItems) :
          LET item == dto.lineItems[i]
          IN /\ item.quantity > 0 /\ item.quantity % 100 = 0
             /\ item.unitPrice > 0 /\ item.unitPrice % 100 = 0
             /\ item.amount = NoDecimal

\* The request arrives.  Over HTTP (env.pipe) the ValidationPipe answers a
\* body it refuses with 400 before the controller runs; else create awaits
\* findUnique({ where: { poNumber } }).
PoCreateCheck(p) ==
    /\ Ready(p)
    /\ \E dto \in CreateDtos :
        /\ HasRoomForOrder(dto.lineItems)
        /\ proc' = [proc EXCEPT ![p] =
                IF env.pipe /\ ~CreateBodyValid(dto)
                THEN Reject(p, "poCreate", NoId, dto, "BadRequestException",
                        "BadRequest")
                ELSE IF FindOrderByPoNumber(dto.poNumber) # {}
                THEN Reject(p, "poCreate", NoId, dto, "ConflictException",
                        CreateCatch("ConflictException"))
                ELSE Begin(p, "poCreate", NoId, dto, "persist")]
    /\ UNCHANGED <<orders, lineItems, accounts, env, hook>>

\* After the lookup lineItemsWithAmounts is built, which throws on a missing
\* quantity or unitPrice; then prisma.purchaseOrder.create with the nested
\* lineItems create: one transaction, the order row first.
PoCreatePersist(p) ==
    /\ p \in env.clients
    /\ proc[p].op = "poCreate" /\ proc[p].pc = "persist"
    /\ LET dto == proc[p].dto
           withAmounts == LineItemsWithAmounts(dto.lineItems)
           totalAmount == calculateTotalAmount(withAmounts)
           id == Fresh(UsedOrderIds, 1)[1]
           purchaseOrder ==
               Stamp([id |-> id,
                      poNumber |-> dto.poNumber,
                      status |-> CreateStatus(dto.status),
                      totalAmount |-> ToDecimal2(totalAmount)],
                     MentionedOrders)
           error == IF DecimalThrows(dto.lineItems) THEN "DecimalError"
                    ELSE IF PoNumberTaken(dto.poNumber, id) THEN "P2002"
                    ELSE IF \E i \in 1..Len(withAmounts) :
                               ~GlAccountExists(withAmounts[i].glAccount)
                    THEN "P2003"
                    ELSE "none"
       IN IF error # "none"
          THEN /\ proc' = Throw(p, error, CreateCatch(error))
               /\ UNCHANGED <<orders, lineItems>>
          ELSE /\ orders' = orders \cup {purchaseOrder}
               /\ lineItems' = lineItems \cup NewLineRows(id, withAmounts)
               /\ proc' = [Respond(p, "ok") EXCEPT
                               ![p].id = id, ![p].row = purchaseOrder]
    /\ UNCHANGED <<accounts, env, hook>>

(***************************************************************************)
(* PurchaseOrdersService.update, full replace of the line items            *)
(***************************************************************************)
UpdateDtos ==
    {[NoDto EXCEPT !.poNumber = po, !.status = st] :
        po \in env.updatePoNumbers, st \in env.updateStatuses}
    \cup
    {[NoDto EXCEPT !.poNumber = po, !.status = st,
                   !.hasLineItems = TRUE, !.lineItems = ls] :
        po \in env.updatePoNumbers, st \in env.updateStatuses,
        ls \in Arrays(env.updateItems, 0, MaxPayload) \cup env.updateArrays}

\* A catch of update that does not rethrow the NotFoundException.
UpdateCatchWithoutRethrow(error) ==
    IF error = "ConflictException" \/ error = "P2002" THEN "Conflict"
    ELSE "BadRequest"

\* A catch of update without the mapping of P2002.
UpdateCatchWithoutP2002(error) ==
    IF error = "NotFoundException" THEN "NotFound"
    ELSE IF error = "ConflictException" THEN "Conflict"
    ELSE "BadRequest"

\* catch of update: NotFoundException and ConflictException are rethrown,
\* P2002 on poNumber becomes a Conflict, anything else a BadRequestException.
UpdateCatch(error) ==
    IF error = "NotFoundException" THEN "NotFound"
    ELSE IF error = "ConflictException" THEN "Conflict"
    ELSE IF error = "P2002" THEN "Conflict"
    ELSE "BadRequest"

\* A filter that keeps the items flagged _delete.
NotDeletedKeepsAll(items) == items

\* lineItems.filter(item => !item._delete)
RECURSIVE NotDeleted(_)
NotDeleted(items) ==
    IF items = <<>> THEN <<>>
    ELSE IF Head(items).del THEN NotDeleted(Tail(items))
    ELSE <<Head(items)>> \o NotDeleted(Tail(items))

\* The differential variant of handleLineItemsUpdate: the three filters.
LineItemsToDelete(items) ==
    SelectSeq(items, LAMBDA x : x.del /\ x.id # NoId)

LineItemsToUpdate(items) ==
    SelectSeq(items, LAMBDA x : ~x.del /\ x.id # NoId)

LineItemsToCreate(items) ==
    SelectSeq(items, LAMBDA x : ~x.del /\ x.id = NoId)

\* item.quantity ? new Decimal(item.quantity) : undefined, and the same for
\* unitPrice: a side that is absent, or 0, is falsy and leaves no key in
\* updateData.
Given(x) == x # NoDecimal /\ x # 0

\* An update that never recomputes the amount.
NeedsAmountNever(item) == FALSE

\* updateData.quantity !== undefined || updateData.unitPrice !== undefined
NeedsAmount(item) == Given(item.quantity) \/ Given(item.unitPrice)

\* The differential variant: the store call that follows when `done` of the
\* items to update have been updated.
DiffLoop(dto, done) ==
    LET toUpdate == LineItemsToUpdate(dto.lineItems)
    IN IF done < Len(toUpdate)
       THEN IF NeedsAmount(toUpdate[done + 1]) THEN "diffFindUnique"
            ELSE "diffUpdate"
       ELSE IF LineItemsToCreate(dto.lineItems) # <<>> THEN "diffCreate"
       ELSE "findMany"

\* The differential variant: its first store call.
DiffFirst(dto) ==
    IF LineItemsToDelete(dto.lineItems) # <<>> THEN "diffDelete"
    ELSE DiffLoop(dto, 0)

\* An update that takes an empty lineItems array for an absent one.
AfterChecksSkipsEmpty(dto) ==
    IF ~dto.hasLineItems \/ dto.lineItems = <<>> THEN "findMany"
    ELSE IF env.variant = "replace" THEN "lineItems"
    ELSE DiffFirst(dto)

\* Where update goes after the existence and uniqueness checks.
AfterChecks(dto) ==
    IF ~dto.hasLineItems THEN "findMany"
    ELSE IF env.variant = "replace" THEN "lineItems"
    ELSE DiffFirst(dto)

\* The ValidationPipe on the body of PATCH /purchase-orders/:id:
\* UpdatePurchaseOrderDto declares poNumber (@IsOptional, @IsString), status
\* (@IsOptional, @IsIn) and lineItems (@ValidateNested), and
\* UpdatePurchaseOrderLineItemDto quantity and unitPrice (@IsOptional,
\* @IsNumber({ maxDecimalPlaces: 2 }), @IsPositive) and no amount.
UpdateBodyValid(dto) ==
    /\ dto.status \in {NoValue, "DRAFT", "SUBMITTED", "APPROVED", "REJECTED",
                        "COMPLETED", "CANCELLED"}
    /\ \A i \in 1..Len(dto.lineItems) :
          LET item == dto.lineItems[i]
          IN /\ item.quantity = NoDecimal
                \/ (item.quantity > 0 /\ item.quantity % 100 = 0)
             /\ item.unitPrice = NoDecimal
                \/ (item.unitPrice > 0 /\ item.unitPrice % 100 = 0)
             /\ item.amount = NoDecimal

\* The request arrives.  Over HTTP (env.pipe) the ValidationPipe answers a
\* body it refuses with 400 before the controller runs; else update awaits
\* findUnique({ where: { id } }).
PoUpdateFind(p) ==
    /\ Ready(p)
    /\ \E id \in KnownOrderIds, dto \in UpdateDtos :
        /\ HasRoomForLines(id, dto.lineItems)
        /\ LET existingPO == FindOrderById(id)
               changesPoNumber ==
                   /\ Truthy(dto.poNumber)
                   /\ \A o \in existingPO : dto.poNumber # o.poNumber
           IN proc' = [proc EXCEPT ![p] =
                IF env.pipe /\ ~UpdateBodyValid(dto)
                THEN Reject(p, "poUpdate", id, dto, "BadRequestException",
                        "BadRequest")
                ELSE IF existingPO = {}
                THEN Reject(p, "poUpdate", id, dto, "NotFoundException",
                        UpdateCatch("NotFoundException"))
                ELSE IF changesPoNumber
                THEN Begin(p, "poUpdate", id, dto, "checkPoNumber")
                ELSE Begin(p, "poUpdate", id, dto, AfterChecks(dto))]
    /\ UNCHANGED <<orders, lineItems, accounts, env, hook>>

\* findUnique({ where: { poNumber } }) for a poNumber that changes
PoUpdateCheckPoNumber(p) ==
    /\ p \in env.clients
    /\ proc[p].op = "poUpdate" /\ proc[p].pc = "checkPoNumber"
    /\ proc' = IF FindOrderByPoNumber(proc[p].dto.poNumber) # {}
               THEN Throw(p, "ConflictException", UpdateCatch("ConflictException"))
               ELSE [proc EXCEPT ![p].pc = AfterChecks(proc[p].dto)]
    /\ UNCHANGED <<orders, lineItems, accounts, env, hook>>

\* handleLineItemsUpdate: deleteMany({ where: { purchaseOrderId } }), then the
\* createData array is built, which throws on a missing quantity or unitPrice.
PoUpdateDeleteMany(p) ==
    /\ p \in env.clients
    /\ proc[p].op = "poUpdate" /\ proc[p].pc = "lineItems"
    /\ env.variant = "replace"
    /\ lineItems' = lineItems \ FindLineItems(proc[p].id)
    /\ LET createData == NotDeleted(proc[p].dto.lineItems)
       IN proc' = IF DecimalThrows(createData)
                  THEN Throw(p, "DecimalError", UpdateCatch("DecimalError"))
                  ELSE IF createData = <<>>
                  THEN [proc EXCEPT ![p].pc = "findMany"]
                  ELSE [proc EXCEPT ![p].pc = "createMany"]
    /\ UNCHANGED <<orders, accounts, env, hook>>

\* handleLineItemsUpdate: createMany({ data: createData })
PoUpdateCreateMany(p) ==
    /\ p \in env.clients
    /\ proc[p].op = "poUpdate" /\ proc[p].pc = "createMany"
    /\ env.variant = "replace"
    /\ LET id == proc[p].id
           createData == LineItemsWithAmounts(NotDeleted(proc[p].dto.lineItems))
           error == LineInsertError(id, createData)
       IN IF error # "none"
          THEN /\ proc' = Throw(p, error, UpdateCatch(error))
               /\ UNCHANGED lineItems
          ELSE /\ lineItems' = lineItems \cup NewLineRows(id, createData)
               /\ proc' = [proc EXCEPT ![p].pc = "findMany"]
    /\ UNCHANGED <<orders, accounts, env, hook>>

\* findMany({ where: { purchaseOrderId: id } }) and calculateTotalAmount
PoUpdateFindMany(p) ==
    /\ p \in env.clients
    /\ proc[p].op = "poUpdate" /\ proc[p].pc = "findMany"
    /\ LET updatedLineItems == RowsToArray(FindLineItems(proc[p].id))
       IN proc' = [proc EXCEPT ![p].pc = "persist",
                               ![p].total = calculateTotalAmount(updatedLineItems)]
    /\ UNCHANGED <<orders, lineItems, accounts, env, hook>>

\* updateData with its undefined values written as well.
ApplyUpdateDataAllFields(o, dto, totalAmount) ==
    [o EXCEPT !.poNumber = dto.poNumber, !.status = dto.status,
              !.totalAmount = ToDecimal2(totalAmount)]

\* updateData without its undefined values, applied to a row
ApplyUpdateData(o, dto, totalAmount) ==
    [o EXCEPT !.poNumber = IF dto.poNumber = NoValue THEN @ ELSE dto.poNumber,
              !.status = IF dto.status = NoValue THEN @ ELSE dto.status,
              !.totalAmount = ToDecimal2(totalAmount)]

\* prisma.purchaseOrder.update({ where: { id }, data: updateData })
PoUpdatePersist(p) ==
    /\ p \in env.clients
    /\ proc[p].op = "poUpdate" /\ proc[p].pc = "persist"
    /\ LET id == proc[p].id
           dto == proc[p].dto
           error == IF ~OrderExists(id) THEN "P2025"
                    ELSE IF dto.poNumber # NoValue
                            /\ PoNumberTaken(dto.poNumber, id)
                    THEN "P2002"
                    ELSE "none"
       IN IF error # "none"
          THEN /\ proc' = Throw(p, error, UpdateCatch(error))
               /\ UNCHANGED orders
          ELSE /\ orders' = {IF o.id = id
                             THEN ApplyUpdateData(o, dto, proc[p].total)
                             ELSE o : o \in orders}
               /\ proc' = [Respond(p, "ok") EXCEPT
                    ![p].row =
                        Returned({ApplyUpdateData(o, dto, proc[p].total) :
                                     o \in FindOrderById(id)})]
    /\ UNCHANGED <<lineItems, accounts, env, hook>>

(***************************************************************************)
(* PurchaseOrdersService.update, differential variant of the line items    *)
(***************************************************************************)
\* deleteMany({ where: { id: { in: ids }, purchaseOrderId } })
PoDiffDeleteMany(p) ==
    /\ p \in env.clients
    /\ proc[p].op = "poUpdate" /\ proc[p].pc = "diffDelete"
    /\ LET toDelete == LineItemsToDelete(proc[p].dto.lineItems)
           ids == {toDelete[i].id : i \in 1..Len(toDelete)}
       IN lineItems' = {l \in lineItems :
                           ~(l.id \in ids /\ l.purchaseOrderId = proc[p].id)}
    /\ proc' = [proc EXCEPT ![p].pc = DiffLoop(proc[p].dto, 0)]
    /\ UNCHANGED <<orders, accounts, env, hook>>

\* findUnique({ where: { id: item.id } }) and the amount of the item to
\* update: updateData.quantity || existingItem.quantity times
\* updateData.unitPrice || existingItem.unitPrice.  Reading a side that
\* updateData does not hold from a row that was not found throws a
\* TypeError.
PoDiffFindUnique(p) ==
    /\ p \in env.clients
    /\ proc[p].op = "poUpdate" /\ proc[p].pc = "diffFindUnique"
    /\ LET item == LineItemsToUpdate(proc[p].dto.lineItems)[proc[p].item + 1]
           existingItem == {l \in lineItems : l.id = item.id}
           quantity(l) == IF Given(item.quantity) THEN item.quantity
                          ELSE l.quantity
           unitPrice(l) == IF Given(item.unitPrice) THEN item.unitPrice
                           ELSE l.unitPrice
       IN proc' =
            IF existingItem = {}
            THEN IF ~Given(item.quantity) \/ ~Given(item.unitPrice)
                 THEN Throw(p, "TypeError", UpdateCatch("TypeError"))
                 ELSE [proc EXCEPT
                          ![p].pc = "diffUpdate",
                          ![p].amount = calculateLineItemAmount(item.quantity,
                                                                item.unitPrice)]
            ELSE LET l == CHOOSE x \in existingItem : TRUE
                 IN [proc EXCEPT
                        ![p].pc = "diffUpdate",
                        ![p].amount = calculateLineItemAmount(quantity(l),
                                                              unitPrice(l))]
    /\ UNCHANGED <<orders, lineItems, accounts, env, hook>>

\* updateData without its undefined values, applied to a line-item row
ApplyLineItemData(l, item, amount) ==
    [l EXCEPT
        !.quantity = IF Given(item.quantity) THEN ToDecimal2(item.quantity)
                     ELSE @,
        !.unitPrice = IF Given(item.unitPrice) THEN ToDecimal2(item.unitPrice)
                      ELSE @,
        !.glAccount = IF item.glAccount = NoId THEN @ ELSE item.glAccount,
        !.amount = IF NeedsAmount(item) THEN ToDecimal2(amount) ELSE @]

\* purchaseOrderLineItem.update({ where: { id: item.id }, data: updateData })
PoDiffUpdate(p) ==
    /\ p \in env.clients
    /\ proc[p].op = "poUpdate" /\ proc[p].pc = "diffUpdate"
    /\ LET item == LineItemsToUpdate(proc[p].dto.lineItems)[proc[p].item + 1]
           error == IF \A l \in lineItems : l.id # item.id THEN "P2025"
                    ELSE IF item.glAccount # NoId
                            /\ ~GlAccountExists(item.glAccount)
                    THEN "P2003"
                    ELSE "none"
       IN IF error # "none"
          THEN /\ proc' = Throw(p, error, UpdateCatch(error))
               /\ UNCHANGED lineItems
          ELSE /\ lineItems' =
                    {IF l.id = item.id
                     THEN ApplyLineItemData(l, item, proc[p].amount)
                     ELSE l : l \in lineItems}
               /\ proc' = [proc EXCEPT
                              ![p].item = @ + 1,
                              ![p].pc = DiffLoop(proc[p].dto, proc[p].item + 1)]
    /\ UNCHANGED <<orders, accounts, env, hook>>

\* The createData array is built, which throws on a missing quantity or
\* unitPrice, then createMany({ data: createData }).
PoDiffCreateMany(p) ==
    /\ p \in env.clients
    /\ proc[p].op = "poUpdate" /\ proc[p].pc = "diffCreate"
    /\ LET id == proc[p].id
           toCreate == LineItemsToCreate(proc[p].dto.lineItems)
       IN IF DecimalThrows(toCreate)
          THEN /\ proc' = Throw(p, "DecimalError", UpdateCatch("DecimalError"))
               /\ UNCHANGED lineItems
          ELSE LET createData == LineItemsWithAmounts(toCreate)
                   error == LineInsertError(id, createData)
               IN IF error # "none"
                  THEN /\ proc' = Throw(p, error, UpdateCatch(error))
                       /\ UNCHANGED lineItems
                  ELSE /\ lineItems' = lineItems \cup NewLineRows(id, createData)
                       /\ proc' = [proc EXCEPT ![p].pc = "findMany"]
    /\ UNCHANGED <<orders, accounts, env, hook>>

(***************************************************************************)
(* PurchaseOrdersService.remove                                            *)
(***************************************************************************)
\* catch of remove: a NotFoundException is rethrown, anything else becomes a
\* BadRequestException.
RemoveCatch(error) ==
    IF error = "NotFoundException" THEN "NotFound" ELSE "BadRequest"

\* The request arrives and awaits findUnique({ where: { id } }).
PoRemoveFind(p) ==
    /\ Ready(p)
    /\ \E id \in KnownOrderIds :
        proc' = [proc EXCEPT ![p] =
            IF FindOrderById(id) = {}
            THEN Reject(p, "poRemove", id, NoDto, "NotFoundException",
                        RemoveCatch("NotFoundException"))
            ELSE Begin(p, "poRemove", id, NoDto, "delete")]
    /\ UNCHANGED <<orders, lineItems, accounts, env, hook>>

\* prisma.purchaseOrder.delete({ where: { id } }); the line items go with the
\* order (ON DELETE CASCADE).
PoRemoveDelete(p) ==
    /\ p \in env.clients
    /\ proc[p].op = "poRemove" /\ proc[p].pc = "delete"
    /\ IF ~OrderExists(proc[p].id)
       THEN /\ proc' = Throw(p, "P2025", RemoveCatch("P2025"))
            /\ UNCHANGED <<orders, lineItems>>
       ELSE /\ orders' = orders \ FindOrderById(proc[p].id)
            /\ lineItems' = lineItems \ FindLineItems(proc[p].id)
            /\ proc' = Respond(p, "ok")
    /\ UNCHANGED <<accounts, env, hook>>

(***************************************************************************)
(* PurchaseOrdersService.findOne                                           *)
(***************************************************************************)
\* findOne has no catch: its NotFoundException reaches the caller as thrown.
FindOneThrows(error) ==
    IF error = "NotFoundException" THEN "NotFound" ELSE "InternalServerError"

\* The request arrives, awaits findUnique({ where: { id }, include }) and is
\* answered.
PoFindOne(p) ==
    /\ Ready(p)
    /\ \E id \in KnownOrderIds :
        proc' = [proc EXCEPT ![p] =
            IF FindOrderById(id) = {}
            THEN Reject(p, "poFindOne", id, NoDto, "NotFoundException",
                        FindOneThrows("NotFoundException"))
            ELSE [Begin(p, "poFindOne", id, NoDto, "done")
                     EXCEPT !.result = "ok"]]
    /\ UNCHANGED <<orders, lineItems, accounts, env, hook>>

(***************************************************************************)
(* GLAccountsService: no try/catch of its own.  An HttpException it throws *)
(* reaches the caller with its status; any other error is answered by      *)
(* AllExceptionsFilter with INTERNAL_SERVER_ERROR.                         *)
(***************************************************************************)
\* AllExceptionsFilter.catch: the error kind the caller sees
ExceptionFilter(exception) ==
    IF exception = "NotFoundException" THEN "NotFound"
    ELSE IF exception = "ConflictException" THEN "Conflict"
    ELSE IF exception = "BadRequestException" THEN "BadRequest"
    ELSE "InternalServerError"

\* A lookup by id that finds nothing.
FindAccountByIdNothing(id) == {}

\* prisma.gLAccount.findUnique({ where: { id } })
FindAccountById(id) == {a \in accounts : a.id = id}

\* A lookup by accountCode that finds nothing.
FindAccountByCodeNothing(accountCode) == {}

\* prisma.gLAccount.findUnique({ where: { accountCode } })
FindAccountByCode(accountCode) ==
    {a \in accounts : SameChars(AsText(a.accountCode), AsText(accountCode))}

\* A store without the unique index on accountCode.
AccountCodeNeverTaken(accountCode, id) == FALSE

\* UNIQUE INDEX gl_accounts_accountCode_key
AccountCodeTaken(accountCode, id) ==
    \E a \in accounts :
        SameChars(AsText(a.accountCode), AsText(accountCode)) /\ a.id # id

\* A usage count that sees no line item.
LineItemCountNone(id) == Cardinality({})

\* _count.lineItems of an account
LineItemCount(id) == Cardinality({l \in lineItems : l.glAccount = id})

GlCreateDtos ==
    {[NoDto EXCEPT !.accountCode = c, !.accountName = n] :
        c \in env.createCodes, n \in env.accountNames}

GlUpdateDtos ==
    {[NoDto EXCEPT !.accountCode = c, !.accountName = n] :
        c \in env.updateCodes, n \in env.accountNames \cup {NoValue}}

PendingAccounts ==
    Cardinality({q \in Connections :
                    proc[q].op = "glCreate" /\ proc[q].pc = "persist"})

\* GLAccountsService.create: the request arrives and awaits
\* findUnique({ where: { accountCode } }).
GlCreateCheck(p) ==
    /\ Ready(p)
    /\ Cardinality(accounts) + PendingAccounts < MaxAccounts
    /\ InTime(MentionedAccounts, PendingAccounts)
    /\ \E dto \in GlCreateDtos :
        proc' = [proc EXCEPT ![p] =
            IF FindAccountByCode(dto.accountCode) # {}
            THEN Reject(p, "glCreate", NoId, dto, "ConflictException",
                        ExceptionFilter("ConflictException"))
            ELSE Begin(p, "glCreate", NoId, dto, "persist")]
    /\ UNCHANGED <<orders, lineItems, accounts, env, hook>>

\* GLAccountsService.create: prisma.gLAccount.create({ data })
GlCreatePersist(p) ==
    /\ p \in env.clients
    /\ proc[p].op = "glCreate" /\ proc[p].pc = "persist"
    /\ LET dto == proc[p].dto
           id == Fresh(UsedAccountIds, 1)[1]
           account == Stamp([id |-> id, accountCode |-> dto.accountCode,
                             accountName |-> dto.accountName],
                            MentionedAccounts)
       IN IF AccountCodeTaken(dto.accountCode, id)
          THEN /\ proc' = Throw(p, "P2002", ExceptionFilter("P2002"))
               /\ UNCHANGED accounts
          ELSE /\ accounts' = accounts \cup {account}
               /\ proc' = [Respond(p, "ok") EXCEPT
                               ![p].id = id, ![p].row = account]
    /\ UNCHANGED <<orders, lineItems, env, hook>>

\* Where GL update goes after the existence check: the code is looked up
\* if (accountCode && accountCode !== existingAccount.accountCode), so not
\* for an absent code and not for the empty text.
GlAfterFind(existing, dto) ==
    IF Truthy(dto.accountCode)
       /\ \A a \in existing : dto.accountCode # a.accountCode
    THEN "checkCode"
    ELSE "persist"

\* GLAccountsService.update: the request arrives and awaits
\* findUnique({ where: { id } }).
GlUpdateFind(p) ==
    /\ Ready(p)
    /\ \E id \in KnownAccountIds, dto \in GlUpdateDtos :
        LET existingAccount == FindAccountById(id)
        IN proc' = [proc EXCEPT ![p] =
            IF existingAccount = {}
            THEN Reject(p, "glUpdate", id, dto, "NotFoundException",
                        ExceptionFilter("NotFoundException"))
            ELSE Begin(p, "glUpdate", id, dto,
                       GlAfterFind(existingAccount, dto))]
    /\ UNCHANGED <<orders, lineItems, accounts, env, hook>>

\* GLAccountsService.update: findUnique({ where: { accountCode } })
GlUpdateCheckCode(p) ==
    /\ p \in env.clients
    /\ proc[p].op = "glUpdate" /\ proc[p].pc = "checkCode"
    /\ proc' = IF FindAccountByCode(proc[p].dto.accountCode) # {}
               THEN Throw(p, "ConflictException", ExceptionFilter("ConflictException"))
               ELSE [proc EXCEPT ![p].pc = "persist"]
    /\ UNCHANGED <<orders, lineItems, accounts, env, hook>>

\* data: updateGLAccountDto, the fields that are present
ApplyAccountDto(a, dto) ==
    [a EXCEPT
        !.accountCode = IF dto.accountCode = NoValue THEN @
                        ELSE dto.accountCode,
        !.accountName = IF dto.accountName = NoValue THEN @
                        ELSE dto.accountName]

\* GLAccountsService.update: prisma.gLAccount.update({ where: { id }, data })
GlUpdatePersist(p) ==
    /\ p \in env.clients
    /\ proc[p].op = "glUpdate" /\ proc[p].pc = "persist"
    /\ LET id == proc[p].id
           dto == proc[p].dto
           error == IF FindAccountById(id) = {} THEN "P2025"
                    ELSE IF dto.accountCode # NoValue
                            /\ AccountCodeTaken(dto.accountCode, id)
                    THEN "P2002"
                    ELSE "none"
       IN IF error # "none"
          THEN /\ proc' = Throw(p, error, ExceptionFilter(error))
               /\ UNCHANGED accounts
          ELSE /\ accounts' = {IF a.id = id THEN ApplyAccountDto(a, dto)
                               ELSE a : a \in accounts}
               /\ proc' = [Respond(p, "ok") EXCEPT
                    ![p].row =
                        Returned({ApplyAccountDto(a, dto) :
                                     a \in FindAccountById(id)})]
    /\ UNCHANGED <<orders, lineItems, env, hook>>

\* GLAccountsService.remove: the request arrives and awaits
\* findUnique({ where: { id }, include: { _count } }).
GlRemoveFind(p) ==
    /\ Ready(p)
    /\ \E id \in KnownAccountIds :
        proc' = [proc EXCEPT ![p] =
            IF FindAccountById(id) = {}
            THEN Reject(p, "glRemove", id, NoDto, "NotFoundException",
                        ExceptionFilter("NotFoundException"))
            ELSE IF LineItemCount(id) > 0
            THEN Reject(p, "glRemove", id, NoDto, "ConflictException",
                        ExceptionFilter("ConflictException"))
            ELSE Begin(p, "glRemove", id, NoDto, "delete")]
    /\ UNCHANGED <<orders, lineItems, accounts, env, hook>>

\* GLAccountsService.remove: prisma.gLAccount.delete({ where: { id } }); a
\* line item that references the account restricts the delete.
GlRemoveDelete(p) ==
    /\ p \in env.clients
    /\ proc[p].op = "glRemove" /\ proc[p].pc = "delete"
    /\ LET id == proc[p].id
           error == IF FindAccountById(id) = {} THEN "P2025"
                    ELSE IF LineItemCount(id) > 0 THEN "P2003"
                    ELSE "none"
       IN IF error # "none"
          THEN /\ proc' = Throw(p, error, ExceptionFilter(error))
               /\ UNCHANGED accounts
          ELSE /\ accounts' = accounts \ FindAccountById(id)
               /\ proc' = Respond(p, "ok")
    /\ UNCHANGED <<orders, lineItems, env, hook>>

(***************************************************************************)
(* findAll of both services.  Text values are sequences of characters.     *)
(***************************************************************************)
\* The characters in the collation's order.
Alphabet ==
    <<" ", "-", "0", "1", "2", "3", "4", "5", "6", "7", "8", "9",
      "a", "b", "c", "d", "e", "f", "g", "h", "i", "j", "k", "l", "m",
      "n", "o", "p", "q", "r", "s", "t", "u", "v", "w", "x", "y", "z">>

\* The place of a character in that order; NoId for a character that the
\* order above does not list, whose place is not modelled.
Weight(c) ==
    LET folded == Fold(c)
        places == {i \in 1..Len(Alphabet) : Alphabet[i] = folded}
    IN IF places = {} THEN NoId ELSE CHOOSE i \in places : TRUE

\* { contains: term }: LIKE '%term%' under the collation.  A NULL column
\* matches no term and is the empty text here.
Contains(text, term) ==
    \E i \in 1..(Len(text) - Len(term) + 1) :
        \A j \in 1..Len(term) : Fold(text[i + j - 1]) = Fold(term[j])

\* The order of two texts under the collation, which is PAD SPACE: the
\* shorter text is compared as if spaces followed it, so texts that differ
\* in trailing spaces only are equal.  Where the first difference involves
\* a character whose place is not modelled, neither text goes before the
\* other here, and SortedArrays returns them in either order.
RECURSIVE TextLess(_, _)
TextLess(a, b) ==
    LET x == IF a = <<>> THEN " " ELSE Head(a)
        y == IF b = <<>> THEN " " ELSE Head(b)
    IN IF a = <<>> /\ b = <<>> THEN FALSE
       ELSE IF Fold(x) = Fold(y)
       THEN TextLess(IF a = <<>> THEN a ELSE Tail(a),
                     IF b = <<>> THEN b ELSE Tail(b))
       ELSE /\ Weight(x) # NoId /\ Weight(y) # NoId
            /\ Weight(x) < Weight(y)

TextFields == {"poNumber", "vendorName", "accountCode", "accountName"}

\* orderBy[sortBy] = sortOrder: does row a go before row b?  The text
\* columns, status among them, compare under the collation, the dates and
\* totalAmount as numbers.
GoesBefore(a, b, sortBy, sortOrder) ==
    LET less(x, y) == IF sortBy \in TextFields
                      THEN TextLess(AsText(x[sortBy]), AsText(y[sortBy]))
                      ELSE IF sortBy = "status"
                      THEN TextLess(StatusText(x.status),
                                    StatusText(y.status))
                      ELSE x[sortBy] < y[sortBy]
    IN IF sortOrder = "desc" THEN less(b, a) ELSE less(a, b)

\* The arrays a findMany with this orderBy may return for the rows: rows
\* that are equal in the sort field come in any order, which the store is
\* free to choose anew for every statement.
RECURSIVE SortedArrays(_, _, _)
SortedArrays(rows, sortBy, sortOrder) ==
    IF rows = {} THEN {<<>>}
    ELSE LET first == {m \in rows :
                          \A x \in rows : ~GoesBefore(x, m, sortBy, sortOrder)}
         IN UNION {{<<m>> \o t :
                       t \in SortedArrays(rows \ {m}, sortBy, sortOrder)} :
                   m \in first}

\* skip and take
Slice(array, skip, take) ==
    SubSeq(array, skip + 1,
           IF skip + take < Len(array) THEN skip + take ELSE Len(array))

\* Math.ceil(total / limit)
Ceil(total, limit) == (total + limit - 1) \div limit

\* query.page || 1 and query.limit || 10
PageOf(query) == IF query.page = NoId THEN 1 ELSE query.page

LimitOf(query) == IF query.limit = NoId THEN 10 ELSE query.limit

\* A where clause whose endDate excludes the day itself.
PoWhereBeforeEnd(o, query) ==
    /\ query.search # <<>>
        => \/ Contains(AsText(o.poNumber), query.search)
           \/ Contains(AsText(o.vendorName), query.search)
           \/ Contains(AsText(o.customerSO), query.search)
    /\ query.startDate # NoId => o.poDate >= query.startDate
    /\ query.endDate # NoId => o.poDate < query.endDate
    /\ Truthy(query.status)
        => SameChars(StatusText(o.status), StatusText(query.status))

\* PurchaseOrdersService.findAll: the where clause.  Each filter is added
\* under if (query.x), so a filter that is absent or empty adds nothing: the
\* empty search is <<>>, an absent or empty date NoId, and a status may be
\* NoValue or "".  status is a text column, which the store compares with
\* the requested status under the collation.
PoWhere(o, query) ==
    /\ query.search # <<>>
        => \/ Contains(AsText(o.poNumber), query.search)
           \/ Contains(AsText(o.vendorName), query.search)
           \/ Contains(AsText(o.customerSO), query.search)
    /\ query.startDate # NoId => o.poDate >= query.startDate
    /\ query.endDate # NoId => o.poDate <= query.endDate
    /\ Truthy(query.status)
        => SameChars(StatusText(o.status), StatusText(query.status))

\* GLAccountsService.findAll: the where clause
GlWhere(a, query) ==
    query.search # <<>>
        => \/ Contains(AsText(a.accountCode), query.search)
           \/ Contains(AsText(a.accountName), query.search)

\* The response: { data, total, page, limit, totalPages }
PageResponse(array, total, query) ==
    [data |-> Slice(array, (PageOf(query) - 1) * LimitOf(query),
                    LimitOf(query)),
     total |-> total,
     page |-> PageOf(query),
     limit |-> LimitOf(query),
     totalPages |-> Ceil(total, LimitOf(query))]

\* PurchaseOrdersService.findAll: the request arrives and awaits
\* count({ where }).
PoFindAllCount(p) ==
    /\ Ready(p)
    /\ \E query \in env.poQueries :
        proc' = [proc EXCEPT ![p] =
            [Begin(p, "poFindAll", NoId, NoDto, "findMany") EXCEPT
                !.query = query,
                !.total = Cardinality({o \in orders : PoWhere(o, query)})]]
    /\ UNCHANGED <<orders, lineItems, accounts, env, hook>>

\* PurchaseOrdersService.findAll: findMany({ where, orderBy, skip, take })
PoFindAllFindMany(p) ==
    /\ p \in env.clients
    /\ proc[p].op = "poFindAll" /\ proc[p].pc = "findMany"
    /\ LET query == proc[p].query
           sortBy == IF query.sortBy = NoValue THEN "createdAt"
                     ELSE query.sortBy
           sortOrder == IF query.sortOrder = NoValue THEN "desc"
                        ELSE query.sortOrder
       IN \E array \in SortedArrays({o \in orders : PoWhere(o, query)},
                                     sortBy, sortOrder) :
            proc' = [proc EXCEPT
                ![p].pc = "done", ![p].result = "ok",
                ![p].found = PageResponse(array, proc[p].total, query)]
    /\ UNCHANGED <<orders, lineItems, accounts, env, hook>>

\* GLAccountsService.findAll: the request arrives and awaits
\* count({ where }).
GlFindAllCount(p) ==
    /\ Ready(p)
    /\ \E query \in env.glQueries :
        proc' = [proc EXCEPT ![p] =
            [Begin(p, "glFindAll", NoId, NoDto, "findMany") EXCEPT
                !.query = query,
                !.total = Cardinality({a \in accounts : GlWhere(a, query)})]]
    /\ UNCHANGED <<orders, lineItems, accounts, env, hook>>

\* GLAccountsService.findAll: findMany({ where, orderBy, skip, take })
GlFindAllFindMany(p) ==
    /\ p \in env.clients
    /\ proc[p].op = "glFindAll" /\ proc[p].pc = "findMany"
    /\ LET query == proc[p].query
           sortBy == IF query.sortBy = NoValue THEN "accountCode"
                     ELSE query.sortBy
           sortOrder == IF query.sortOrder = NoValue THEN "asc"
                        ELSE query.sortOrder
       IN \E array \in SortedArrays({a \in accounts : GlWhere(a, query)},
                                     sortBy, sortOrder) :
            proc' = [proc EXCEPT
                ![p].pc = "done", ![p].result = "ok",
                ![p].found = PageResponse(array, proc[p].total, query)]
    /\ UNCHANGED <<orders, lineItems, accounts, env, hook>>

(***************************************************************************)
(* The list hooks of the frontend, useGLAccounts and usePurchaseOrders.    *)
(* A hook holds the filters, the records it displays, the pagination and   *)
(* the loading flag.  A call that changes the filters only sets the state; *)
(* the effects of the render that follows send the requests; a response    *)
(* that arrives runs the rest of the call that awaited it.  The flags      *)
(* creating, updating and deleting, the error message, the statistics and  *)
(* the selected record are not part of the state kept here.                *)
(***************************************************************************)
\* An argument object: the keys it holds and their values.
Patch(keys, values) == [keys |-> keys, values |-> values]

\* { ...base, ...patch }
Spread(base, patch) ==
    [k \in DOMAIN base |->
        IF k \in patch.keys THEN patch.values[k] ELSE base[k]]

\* useState: { page: 1, limit: pageSize, ...initialFilters }, with the
\* pageSize 10 and no initialFilters of the pages that mount the hooks.
InitialFilters == [NoQuery EXCEPT !.page = 1, !.limit = 10]

\* The connections that carry no request, and a request on its way to the
\* backend.
FreeConnections == {p \in env.clients : proc[p].pc = "idle"}

Sent(op, query) ==
    [Begin(0, op, NoId, NoDto, "sent") EXCEPT !.query = query]

\* setLoading(true): a fetch has run up to its await.
Loading(h, query) == [h EXCEPT !.loading = TRUE, !.issued = query]

\* useEffect(..., [filters.page, filters.limit, pageSize]): on mount and
\* when the page or the limit of the filters has changed,
\* setPagination({ ...prev, current: filters.page || 1,
\* pageSize: filters.limit || pageSize }).
PaginationEffect(h) ==
    [h EXCEPT
        !.pagination =
            IF \/ h.effects = "mount"
               \/ h.deps # <<h.filters.page, h.filters.limit>>
            THEN [@ EXCEPT !.current = PageOf(h.filters),
                           !.pageSize = LimitOf(h.filters)]
            ELSE @,
        !.deps = <<h.filters.page, h.filters.limit>>,
        !.effects = "none"]

\* A call of the user finds the hook rendered and its effects run.
Rendered(h) == h \in env.mounted /\ hook[h].effects = "none"

\* setFiltersState(...): the filters are set and a render is due.
WithFilters(h, filters) == [h EXCEPT !.filters = filters, !.effects = "update"]

\* setTimeout(() => fetchPurchaseOrders(newFilters), 0), with the filters of
\* the render that made the callback: the query of the fetch to come.
WithTimer(h, closure, newFilters) ==
    [h EXCEPT !.timers = Append(@, Spread(closure, newFilters))]

\* Every key of a query.
AllKeys == DOMAIN NoQuery

\* setGLAccounts(response.data) / setPurchaseOrders(response.data),
\* setPagination({ ...prev, current, pageSize, total, totalPages }) and, in
\* finally, setLoading(false); a request that failed leaves the records and
\* the pagination.
Show(h, result, found) ==
    IF result = "ok"
    THEN [h EXCEPT
            !.records = found.data,
            !.pagination = [current |-> found.page, pageSize |-> found.limit,
                            total |-> found.total,
                            totalPages |-> found.totalPages],
            !.loading = FALSE]
    ELSE [h EXCEPT !.loading = FALSE]

\* recentPurchaseOrders: purchaseOrders.sort((a, b) => new Date(b.createdAt)
\* - new Date(a.createdAt)) sorts the array of the state itself, at every
\* render with new records: latest first, equal times in the order they had.
RECURSIVE SortRecent(_)
SortRecent(array) ==
    IF array = <<>> THEN <<>>
    ELSE LET first == CHOOSE i \in 1..Len(array) :
                \A j \in 1..Len(array) :
                    \/ array[j].createdAt < array[i].createdAt
                    \/ array[j].createdAt = array[i].createdAt /\ i <= j
         IN <<array[first]>>
            \o SortRecent(SubSeq(array, 1, first - 1)
                          \o SubSeq(array, first + 1, Len(array)))

\* The records of usePurchaseOrders as a render leaves them.
Sorted(h) == [h EXCEPT !.records = SortRecent(@)]

\* setGLAccounts((prev) => [newAccount, ...prev])
Prepend(h, result, row) ==
    IF result = "ok" THEN [h EXCEPT !.records = <<row>> \o @] ELSE h

\* setGLAccounts((prev) => prev.map((account) =>
\*     account.id === id ? updatedAccount : account))
Replace(h, result, id, row) ==
    IF result = "ok"
    THEN [h EXCEPT !.records =
            [i \in 1..Len(@) |-> IF @[i].id = id THEN row ELSE @[i]]]
    ELSE h

\* setGLAccounts((prev) => prev.filter((account) => account.id !== id))
Remove(h, result, id) ==
    IF result = "ok"
    THEN [h EXCEPT !.records = SelectSeq(@, LAMBDA r : r.id # id)]
    ELSE h

\* The ValidationPipe of main.ts (whitelist, forbidNonWhitelisted) on the
\* query of GET /gl-accounts: QueryGLAccountDto declares search, page
\* (@Min(1)), limit (@Min(1), @Max(100)), sortBy and sortOrder (@IsIn), each
\* optional, and no other key.
GlQueryValid(query) ==
    /\ query.page = NoId \/ query.page >= 1
    /\ query.limit = NoId \/ query.limit \in 1..100
    /\ query.sortBy \in {NoValue, "accountCode", "accountName", "createdAt"}
    /\ query.sortOrder \in {NoValue, "asc", "desc"}
    /\ query.startDate = NoId /\ query.endDate = NoId
    /\ query.status = NoValue /\ query.pageSize = NoId

\* The same on the query of GET /purchase-orders: QueryPurchaseOrderDto
\* declares search, startDate and endDate (@IsDateString, which the day
\* numbers here satisfy), status (@IsIn), page, limit, sortBy and sortOrder,
\* each optional, and no other key; pageSize is none of them.
PoQueryValid(query) ==
    /\ query.status \in {NoValue, "DRAFT", "SUBMITTED", "APPROVED",
                          "REJECTED", "COMPLETED", "CANCELLED"}
    /\ query.page = NoId \/ query.page >= 1
    /\ query.limit = NoId \/ query.limit \in 1..100
    /\ query.sortBy \in {NoValue, "createdAt", "poDate", "poNumber",
                          "vendorName", "totalAmount", "status"}
    /\ query.sortOrder \in {NoValue, "asc", "desc"}
    /\ query.pageSize = NoId

\* The request of a fetch arrives.  The ValidationPipe answers a query it
\* refuses with 400; otherwise findAll runs and awaits count({ where }).
GlFindAllArrive(p) ==
    /\ p \in env.clients
    /\ proc[p].op = "glFindAll" /\ proc[p].pc = "sent"
    /\ proc' = IF ~GlQueryValid(proc[p].query)
               THEN Throw(p, "BadRequestException", "BadRequest")
               ELSE [proc EXCEPT
                       ![p].pc = "findMany",
                       ![p].total =
                           Cardinality({a \in accounts :
                                           GlWhere(a, proc[p].query)})]
    /\ UNCHANGED <<orders, lineItems, accounts, env, hook>>

PoFindAllArrive(p) ==
    /\ p \in env.clients
    /\ proc[p].op = "poFindAll" /\ proc[p].pc = "sent"
    /\ proc' = IF ~PoQueryValid(proc[p].query)
               THEN Throw(p, "BadRequestException", "BadRequest")
               ELSE [proc EXCEPT
                       ![p].pc = "findMany",
                       ![p].total =
                           Cardinality({o \in orders :
                                           PoWhere(o, proc[p].query)})]
    /\ UNCHANGED <<orders, lineItems, accounts, env, hook>>

(***************************************************************************)
(* useGLAccounts                                                           *)
(***************************************************************************)
\* The render with new filters and its effects: fetchGLAccounts, made anew
\* for the new filters, is a dependency of both fetch effects, and each
\* calls it; then the pagination effect.
GLAccountsEffects(p) ==
    /\ "gl" \in env.mounted /\ hook["gl"].effects # "none"
    /\ LET free == Least(FreeConnections, 2)
           h == hook["gl"]
       IN /\ Len(free) = 2 /\ p = free[1]
          /\ proc' = [proc EXCEPT
                         ![free[1]] = Sent("glFindAll", h.filters),
                         ![free[2]] = Sent("glFindAll", h.filters)]
          /\ hook' = [hook EXCEPT
                         !["gl"] = [Loading(PaginationEffect(h), h.filters)
                                       EXCEPT !.closure = h.filters,
                                              !.held = (@ \cup {h.closure})
                                                       \ {h.filters}]]
    /\ UNCHANGED <<orders, lineItems, accounts, env>>

\* fetchGLAccounts(newFilters), called by the page, up to its await:
\* setLoading(true), and the request { ...filters, ...newFilters } leaves.
\* The filters are those of the render that made the callback
\* (useCallback(..., [filters])): handleRefresh calls the callback of the
\* last render, and a handler that awaited a create, an update or a delete
\* calls the one it was made with, which may be that of any earlier render.
FetchGLAccounts(p) ==
    /\ Rendered("gl")
    /\ Least(FreeConnections, 1) = <<p>>
    /\ \E newFilters \in env.refetches,
          filters \in {hook["gl"].closure} \cup hook["gl"].held :
        LET queryParams == Spread(filters, newFilters)
        IN /\ proc' = [proc EXCEPT ![p] = Sent("glFindAll", queryParams)]
           /\ hook' = [hook EXCEPT
                          !["gl"] = Loading(hook["gl"], queryParams)]
    /\ UNCHANGED <<orders, lineItems, accounts, env>>

\* The response arrives and fetchGLAccounts goes on after its await.
FetchGLAccountsResolve(p) ==
    /\ p \in env.clients
    /\ proc[p].op = "glFindAll" /\ proc[p].pc = "done"
    /\ hook' = [hook EXCEPT
                   !["gl"] = Show(hook["gl"], proc[p].result, proc[p].found)]
    /\ proc' = [proc EXCEPT ![p] = Idle]
    /\ UNCHANGED <<orders, lineItems, accounts, env>>

\* setFilters(newFilters): { ...prev, ...newFilters, page: newFilters.page
\* !== undefined ? newFilters.page : 1 }
SetFiltersGL ==
    /\ Rendered("gl")
    /\ \E newFilters \in env.patches :
        hook' = [hook EXCEPT !["gl"] =
            WithFilters(@, [Spread(@.filters, newFilters) EXCEPT
                               !.page = IF "page" \in newFilters.keys
                                        THEN newFilters.values.page
                                        ELSE 1])]
    /\ UNCHANGED <<orders, lineItems, accounts, proc, env>>

\* clearFilters(): { page: 1, limit: pageSize }
ClearFiltersGL ==
    /\ Rendered("gl")
    /\ hook' = [hook EXCEPT !["gl"] = WithFilters(@, InitialFilters)]
    /\ UNCHANGED <<orders, lineItems, accounts, proc, env>>

\* setPage(page): { ...prev, page }
SetPageGL ==
    /\ Rendered("gl")
    /\ \E page \in env.pages :
        hook' = [hook EXCEPT !["gl"] =
            WithFilters(@, [@.filters EXCEPT !.page = page])]
    /\ UNCHANGED <<orders, lineItems, accounts, proc, env>>

\* setPageSize(size): { ...prev, limit: size, page: 1 }
SetPageSizeGL ==
    /\ Rendered("gl")
    /\ \E size \in env.sizes :
        hook' = [hook EXCEPT !["gl"] =
            WithFilters(@, [@.filters EXCEPT !.limit = size, !.page = 1])]
    /\ UNCHANGED <<orders, lineItems, accounts, proc, env>>

\* The table's pagination argument when there is none.
NoPager == [current |-> NoId, pageSize |-> NoId]

\* What handleTableChange makes of the table's pagination and sorter: page
\* and limit if (pagination), and sortBy and sortOrder if (sorter &&
\* sorter.field).
TableFilters(pagination, sorter) ==
    Patch((IF pagination = NoPager THEN {} ELSE {"page", "limit"})
          \cup (IF sorter.field = NoValue THEN {}
                ELSE {"sortBy", "sortOrder"}),
          [NoQuery EXCEPT
              !.page = pagination.current,
              !.limit = pagination.pageSize,
              !.sortBy = sorter.field,
              !.sortOrder = IF sorter.field = NoValue THEN NoValue
                            ELSE IF sorter.order = "descend" THEN "desc"
                            ELSE "asc"])

\* handleTableChange(pagination, filters, sorter): setFilters(newFilters),
\* with the page and the pageSize that the table reports.
HandleTableChangeGL ==
    /\ Rendered("gl")
    /\ \E pagination \in env.pagers, sorter \in env.sorters :
        LET newFilters == TableFilters(pagination, sorter)
        IN hook' = [hook EXCEPT !["gl"] =
              WithFilters(@, [Spread(@.filters, newFilters) EXCEPT
                                 !.page = IF "page" \in newFilters.keys
                                          THEN newFilters.values.page
                                          ELSE 1])]
    /\ UNCHANGED <<orders, lineItems, accounts, proc, env>>

\* createGLAccount(data): glAccountService.create(data) reaches the backend.
CreateGLAccount(p) ==
    /\ "gl" \in env.mounted
    /\ Least(FreeConnections, 1) = <<p>>
    /\ GlCreateCheck(p)

\* The response arrives: on success the new account goes first.
CreateGLAccountResolve(p) ==
    /\ p \in env.clients
    /\ proc[p].op = "glCreate" /\ proc[p].pc = "done"
    /\ hook' = [hook EXCEPT
                   !["gl"] = Prepend(@, proc[p].result, proc[p].row)]
    /\ proc' = [proc EXCEPT ![p] = Idle]
    /\ UNCHANGED <<orders, lineItems, accounts, env>>

\* updateGLAccount(id, data): glAccountService.update(id, data) reaches the
\* backend.
UpdateGLAccount(p) ==
    /\ "gl" \in env.mounted
    /\ Least(FreeConnections, 1) = <<p>>
    /\ GlUpdateFind(p)

\* The response arrives: on success the record with the id is replaced.
UpdateGLAccountResolve(p) ==
    /\ p \in env.clients
    /\ proc[p].op = "glUpdate" /\ proc[p].pc = "done"
    /\ hook' = [hook EXCEPT
                   !["gl"] = Replace(@, proc[p].result, proc[p].id,
                                     proc[p].row)]
    /\ proc' = [proc EXCEPT ![p] = Idle]
    /\ UNCHANGED <<orders, lineItems, accounts, env>>

\* deleteGLAccount(id): glAccountService.remove(id) reaches the backend.
DeleteGLAccount(p) ==
    /\ "gl" \in env.mounted
    /\ Least(FreeConnections, 1) = <<p>>
    /\ GlRemoveFind(p)

\* The response arrives: on success the record with the id is dropped.
DeleteGLAccountResolve(p) ==
    /\ p \in env.clients
    /\ proc[p].op = "glRemove" /\ proc[p].pc = "done"
    /\ hook' = [hook EXCEPT !["gl"] = Remove(@, proc[p].result, proc[p].id)]
    /\ proc' = [proc EXCEPT ![p] = Idle]
    /\ UNCHANGED <<orders, lineItems, accounts, env>>

(***************************************************************************)
(* usePurchaseOrders                                                       *)
(***************************************************************************)
\* The render with new filters and its effects: the fetch effect calls
\* fetchPurchaseOrders, made anew for the new filters; then the pagination
\* effect.
PurchaseOrdersEffects(p) ==
    /\ "po" \in env.mounted /\ hook["po"].effects # "none"
    /\ Least(FreeConnections, 1) = <<p>>
    /\ LET h == hook["po"]
       IN /\ proc' = [proc EXCEPT ![p] = Sent("poFindAll", h.filters)]
          /\ hook' = [hook EXCEPT
                         !["po"] = [Loading(PaginationEffect(h), h.filters)
                                       EXCEPT !.closure = h.filters]]
    /\ UNCHANGED <<orders, lineItems, accounts, env>>

\* A timer of setFilters, setSearchTerm or clearFilters fires, after the
\* effects of the render: fetchPurchaseOrders(newFilters) up to its await.
PurchaseOrdersTimer(p) ==
    /\ Rendered("po") /\ hook["po"].timers # <<>>
    /\ Least(FreeConnections, 1) = <<p>>
    /\ LET queryParams == Head(hook["po"].timers)
       IN /\ proc' = [proc EXCEPT ![p] = Sent("poFindAll", queryParams)]
          /\ hook' = [hook EXCEPT
                         !["po"] = Loading([@ EXCEPT !.timers = Tail(@)],
                                           queryParams)]
    /\ UNCHANGED <<orders, lineItems, accounts, env>>

\* fetchPurchaseOrders(newFilters), called by the page, up to its await;
\* it spreads over the filters of the render that made the callback.
FetchPurchaseOrders(p) ==
    /\ Rendered("po")
    /\ Least(FreeConnections, 1) = <<p>>
    /\ \E newFilters \in env.refetches :
        LET queryParams == Spread(hook["po"].closure, newFilters)
        IN /\ proc' = [proc EXCEPT ![p] = Sent("poFindAll", queryParams)]
           /\ hook' = [hook EXCEPT
                          !["po"] = Loading(hook["po"], queryParams)]
    /\ UNCHANGED <<orders, lineItems, accounts, env>>

\* The response arrives and fetchPurchaseOrders goes on after its await;
\* the render sorts the records.
FetchPurchaseOrdersResolve(p) ==
    /\ p \in env.clients
    /\ proc[p].op = "poFindAll" /\ proc[p].pc = "done"
    /\ hook' = [hook EXCEPT
          !["po"] = Sorted(Show(hook["po"], proc[p].result, proc[p].found))]
    /\ proc' = [proc EXCEPT ![p] = Idle]
    /\ UNCHANGED <<orders, lineItems, accounts, env>>

\* A call that sets a timer waits for the timer of the call before it.
NoTimer == Len(hook["po"].timers) < MaxTimers

\* setFilters(newFilters): updatedFilters is { ...prev, ...newFilters,
\* page: 1 }, and a timer is set for fetchPurchaseOrders(updatedFilters).
SetFiltersPO ==
    /\ Rendered("po") /\ NoTimer
    /\ \E newFilters \in env.patches :
        LET closure == hook["po"].closure
            updatedFilters == [Spread(hook["po"].filters, newFilters)
                                  EXCEPT !.page = 1]
        IN hook' = [hook EXCEPT !["po"] =
              WithTimer(WithFilters(@, updatedFilters), closure,
                        Patch(AllKeys, updatedFilters))]
    /\ UNCHANGED <<orders, lineItems, accounts, proc, env>>

\* setSearchTerm(term): updatedFilters is { ...prev, page: 1 }, without the
\* term, and a timer is set for fetchPurchaseOrders({ ...updatedFilters,
\* search: term }).
SetSearchTermPO ==
    /\ Rendered("po") /\ NoTimer
    /\ \E term \in env.terms :
        LET closure == hook["po"].closure
            updatedFilters == [hook["po"].filters EXCEPT !.page = 1]
        IN hook' = [hook EXCEPT !["po"] =
              WithTimer(WithFilters(@, updatedFilters), closure,
                        Patch(AllKeys,
                              [updatedFilters EXCEPT !.search = term]))]
    /\ UNCHANGED <<orders, lineItems, accounts, proc, env>>

\* clearFilters(): { page: 1, limit: pageSize }, and a timer is set for
\* fetchPurchaseOrders({ page: 1, limit: pageSize }), which spreads the two
\* over the filters of the render that made clearFilters.
ClearFiltersPO ==
    /\ Rendered("po") /\ NoTimer
    /\ hook' = [hook EXCEPT !["po"] =
          WithTimer(WithFilters(@, InitialFilters), @.closure,
                    Patch({"page", "limit"}, InitialFilters))]
    /\ UNCHANGED <<orders, lineItems, accounts, proc, env>>

\* setPage(page): { ...prev, page }
SetPagePO ==
    /\ Rendered("po")
    /\ \E page \in env.pages :
        hook' = [hook EXCEPT !["po"] =
            WithFilters(@, [@.filters EXCEPT !.page = page])]
    /\ UNCHANGED <<orders, lineItems, accounts, proc, env>>

\* setPageSize(size): { ...prev, pageSize: size, page: 1 }, a key that
\* QueryPurchaseOrderDto does not declare; the limit stays.
SetPageSizePO ==
    /\ Rendered("po")
    /\ \E size \in env.sizes :
        hook' = [hook EXCEPT !["po"] =
            WithFilters(@, [@.filters EXCEPT !.pageSize = size, !.page = 1])]
    /\ UNCHANGED <<orders, lineItems, accounts, proc, env>>

\* handleTableChange(pagination, filters, sorter): setFilters(newFilters),
\* which sets the page to 1 whatever page the table asks for.
HandleTableChangePO ==
    /\ Rendered("po") /\ NoTimer
    /\ \E pagination \in env.pagers, sorter \in env.sorters :
        LET closure == hook["po"].closure
            newFilters == TableFilters(pagination, sorter)
            updatedFilters == [Spread(hook["po"].filters, newFilters)
                                  EXCEPT !.page = 1]
        IN hook' = [hook EXCEPT !["po"] =
              WithTimer(WithFilters(@, updatedFilters), closure,
                        Patch(AllKeys, updatedFilters))]
    /\ UNCHANGED <<orders, lineItems, accounts, proc, env>>

\* createPurchaseOrder(data): purchaseOrderService.create(data) reaches the
\* backend.
CreatePurchaseOrder(p) ==
    /\ "po" \in env.mounted
    /\ Least(FreeConnections, 1) = <<p>>
    /\ PoCreateCheck(p)

\* The response arrives: on success the new order goes first, and the
\* render sorts the records.
CreatePurchaseOrderResolve(p) ==
    /\ p \in env.clients
    /\ proc[p].op = "poCreate" /\ proc[p].pc = "done"
    /\ hook' = [hook EXCEPT
                   !["po"] = Sorted(Prepend(@, proc[p].result, proc[p].row))]
    /\ proc' = [proc EXCEPT ![p] = Idle]
    /\ UNCHANGED <<orders, lineItems, accounts, env>>

\* updatePurchaseOrder(id, data): purchaseOrderService.update(id, data)
\* reaches the backend.
UpdatePurchaseOrder(p) ==
    /\ "po" \in env.mounted
    /\ Least(FreeConnections, 1) = <<p>>
    /\ PoUpdateFind(p)

\* The response arrives: on success the record with the id is replaced.
UpdatePurchaseOrderResolve(p) ==
    /\ p \in env.clients
    /\ proc[p].op = "poUpdate" /\ proc[p].pc = "done"
    /\ hook' = [hook EXCEPT
                   !["po"] = Sorted(Replace(@, proc[p].result, proc[p].id,
                                            proc[p].row))]
    /\ proc' = [proc EXCEPT ![p] = Idle]
    /\ UNCHANGED <<orders, lineItems, accounts, env>>

\* deletePurchaseOrder(id): purchaseOrderService.remove(id) reaches the
\* backend.
DeletePurchaseOrder(p) ==
    /\ "po" \in env.mounted
    /\ Least(FreeConnections, 1) = <<p>>
    /\ PoRemoveFind(p)

\* The response arrives: on success the record with the id is dropped.
DeletePurchaseOrderResolve(p) ==
    /\ p \in env.clients
    /\ proc[p].op = "poRemove" /\ proc[p].pc = "done"
    /\ hook' = [hook EXCEPT
                   !["po"] = Sorted(Remove(@, proc[p].result, proc[p].id))]
    /\ proc' = [proc EXCEPT ![p] = Idle]
    /\ UNCHANGED <<orders, lineItems, accounts, env>>

(***************************************************************************)
(* Environments and specifications.                                        *)
(***************************************************************************)
\* A line item of a request body, which carries no amount.
Item(quantity, unitPrice, glAccount) ==
    [id |-> NoId, quantity |-> quantity, unitPrice |-> unitPrice,
     glAccount |-> glAccount, del |-> FALSE, amount |-> NoDecimal]

\* Half a unit at 0.01, ten and five units at 25.99; account 1 is seeded,
\* account 3 does not exist.
HalfCent == Item(5000, 100, 1)
TenAt2599 == Item(100000, 259900, 1)

\* The same with an amount of 1.00 in the body.
Priced == [TenAt2599 EXCEPT !.amount = 10000]
FiveAt2599 == Item(50000, 259900, 1)
NoAccount == Item(50000, 259900, 3)
NoQuantity == Item(NoDecimal, 100, 1)
Deleted(item) == [item EXCEPT !.del = TRUE]

\* The accounts of the seed script (two of them).
SeedAccounts ==
    {[id |-> 1, accountCode |-> "1000", accountName |-> "Cash"],
     [id |-> 2, accountCode |-> "2000", accountName |-> "Accounts Payable"]}

\* A list hook as useState initialises it: no records, the first page of
\* pageSize 10, not loading.  `effects` says whether the effects of a
\* render are due ("mount", "update") or have run ("none"), `deps` is the
\* page and limit the pagination effect ran for last, `closure` is the
\* filters of the last render, over which its callbacks close, `held` is
\* the other filters that callbacks of earlier renders close over: a
\* handler of the page that awaits (handleDelete, handleFormSubmit) keeps
\* the fetchGLAccounts it was made with, over any number of renders,
\* `timers` holds the queries of the fetches that timers will start, and
\* `issued` is the query of the fetch that was started last.  A hook that
\* is not mounted stays as it is here.
NoHook ==
    [filters |-> InitialFilters, records |-> <<>>,
     pagination |-> [current |-> 1, pageSize |-> 10, total |-> 0,
                     totalPages |-> 0],
     loading |-> FALSE, effects |-> "none", deps |-> <<NoId, NoId>>,
     closure |-> InitialFilters, held |-> {},
     timers |-> <<>>, issued |-> NoQuery]

\* useGLAccounts and usePurchaseOrders, neither mounted
Hooks == [h \in {"gl", "po"} |-> NoHook]

\* The hooks of env.mounted after their first render, the others not
\* mounted.
Mounted ==
    [h \in {"gl", "po"} |->
        IF h \in env.mounted THEN [NoHook EXCEPT !.effects = "mount"]
        ELSE NoHook]

InitStore ==
    /\ orders = {}
    /\ lineItems = {}
    /\ accounts = SeedAccounts
    /\ proc = [p \in Connections |-> Idle]
    /\ hook = Hooks

\* One client at a time: the purchase-order service request by request.
SeqEnv ==
    [clients |-> {1}, sequential |-> TRUE, history |-> TRUE,
     variant |-> "replace", pipe |-> TRUE,
     createPoNumbers |-> PoNumbers,
     createStatuses |-> {NoValue},
     createItems |-> {HalfCent, TenAt2599, NoAccount},
     createArrays |-> {},
     updatePoNumbers |-> {NoValue, "PO-2"},
     updateStatuses |-> {NoValue},
     updateItems |-> {HalfCent, NoQuantity},
     updateArrays |-> {<<HalfCent, Deleted(TenAt2599), FiveAt2599>>,
                       <<Deleted(HalfCent)>>, <<TenAt2599>>, <<NoAccount>>},
     createCodes |-> {}, updateCodes |-> {}, accountNames |-> {},
     poQueries |-> {}, glQueries |-> {},
     clock |-> 0, chars |-> FALSE,
     mounted |-> {}, patches |-> {}, refetches |-> {}, pages |-> {},
     sizes |-> {}, pagers |-> {}, sorters |-> {}, terms |-> {}]

InitSeq == InitStore /\ env = SeqEnv

PoNext ==
    \E p \in Clients :
        \/ PoCreateCheck(p)
        \/ PoCreatePersist(p)
        \/ PoUpdateFind(p)
        \/ PoUpdateCheckPoNumber(p)
        \/ PoUpdateDeleteMany(p)
        \/ PoUpdateCreateMany(p)
        \/ PoUpdateFindMany(p)
        \/ PoUpdatePersist(p)
        \/ PoRemoveFind(p)
        \/ PoRemoveDelete(p)
        \/ Receive(p)

\* The same with findOne.
SeqNext ==
    \E p \in Clients :
        \/ PoCreateCheck(p)
        \/ PoCreatePersist(p)
        \/ PoFindOne(p)
        \/ PoUpdateFind(p)
        \/ PoUpdateCheckPoNumber(p)
        \/ PoUpdateDeleteMany(p)
        \/ PoUpdateCreateMany(p)
        \/ PoUpdateFindMany(p)
        \/ PoUpdatePersist(p)
        \/ PoRemoveFind(p)
        \/ PoRemoveDelete(p)
        \/ Receive(p)

SpecSeq == InitSeq /\ [][SeqNext]_vars

\* One client at a time, with statuses: orders are created with and without
\* a status, their headers updated with and without lineItems.
HeaderEnv ==
    [SeqEnv EXCEPT
        !.createStatuses = {NoValue, "", "SUBMITTED"},
        !.createItems = {},
        !.createArrays = {<<HalfCent>>, <<HalfCent, HalfCent>>, <<TenAt2599>>,
                          <<Priced>>, <<NoQuantity>>},
        !.updateStatuses = {NoValue, "APPROVED"},
        !.updateItems = {},
        !.updateArrays = {<<Deleted(HalfCent)>>, <<FiveAt2599>>}]

\* The requests reach the service over HTTP, through the ValidationPipe, or
\* the service is called directly.
InitHeader ==
    /\ InitStore
    /\ \E pipe \in BOOLEAN : env = [HeaderEnv EXCEPT !.pipe = pipe]

SpecHeader == InitHeader /\ [][SeqNext]_vars

\* One client at a time, with poNumbers: orders are updated to the poNumber
\* of another order, to their own and to the empty one, with and without
\* lineItems.
NumberEnv ==
    [SeqEnv EXCEPT
        !.createItems = {},
        !.createArrays = {<<HalfCent>>},
        !.updatePoNumbers = {NoValue, "PO-1", "PO-2", "", "po-1", "PO-1 "},
        !.updateItems = {},
        !.updateArrays = {<<FiveAt2599>>, <<NoQuantity>>}]

InitNumber == InitStore /\ env = NumberEnv

SpecNumber == InitNumber /\ [][SeqNext]_vars

\* One client at a time against either variant of handleLineItemsUpdate.
\* Elements of an update payload that name a line item by id: with the
\* fields that are supplied, or flagged _delete.  Line item 1 is the first
\* of order 1.
Named(id, quantity, unitPrice, glAccount) ==
    [Item(quantity, unitPrice, glAccount) EXCEPT !.id = id]

DiffEnv ==
    [SeqEnv EXCEPT
        !.createStatuses = {NoValue, "SUBMITTED"},
        !.createItems = {},
        !.createArrays = {<<TenAt2599>>, <<TenAt2599, HalfCent>>},
        !.updatePoNumbers = {NoValue},
        !.updateItems = {},
        !.updateArrays =
            {<<Named(1, 50000, NoDecimal, NoId)>>,
             <<Named(1, NoDecimal, 100, 2)>>,
             <<Named(1, NoDecimal, NoDecimal, 2), FiveAt2599>>,
             <<Named(1, 50000, 259900, 1)>>,
             <<Named(1, 0, NoDecimal, 2)>>,
             <<Named(1, 0, 100, NoId)>>,
             <<Named(2, 0, 100, NoId)>>,
             <<Deleted(Named(1, 50000, 259900, 1)), HalfCent>>,
             <<Deleted(HalfCent), Named(2, 50000, NoDecimal, NoId)>>,
             <<Deleted(Named(2, NoDecimal, NoDecimal, NoId))>>}]

InitDiff ==
    /\ InitStore
    /\ \E variant \in {"replace", "differential"}, pipe \in BOOLEAN :
          env = [DiffEnv EXCEPT !.variant = variant, !.pipe = pipe]

DiffNext ==
    \E p \in Clients :
        \/ PoCreateCheck(p)
        \/ PoCreatePersist(p)
        \/ PoUpdateFind(p)
        \/ PoUpdateDeleteMany(p)
        \/ PoUpdateCreateMany(p)
        \/ PoDiffDeleteMany(p)
        \/ PoDiffFindUnique(p)
        \/ PoDiffUpdate(p)
        \/ PoDiffCreateMany(p)
        \/ PoUpdateFindMany(p)
        \/ PoUpdatePersist(p)
        \/ Receive(p)

SpecDiff == InitDiff /\ [][DiffNext]_vars

\* Two clients whose purchase-order requests interleave.
PoEnv ==
    [clients |-> Clients, sequential |-> FALSE, history |-> FALSE,
     variant |-> "replace", pipe |-> TRUE,
     createPoNumbers |-> PoNumbers,
     createStatuses |-> {NoValue},
     createItems |-> {},
     createArrays |-> {<<HalfCent>>},
     updatePoNumbers |-> {"PO-2"},
     updateStatuses |-> {NoValue},
     updateItems |-> {},
     updateArrays |-> {<<HalfCent>>},
     createCodes |-> {}, updateCodes |-> {}, accountNames |-> {},
     poQueries |-> {}, glQueries |-> {},
     clock |-> 0, chars |-> FALSE,
     mounted |-> {}, patches |-> {}, refetches |-> {}, pages |-> {},
     sizes |-> {}, pagers |-> {}, sorters |-> {}, terms |-> {}]

InitPo == InitStore /\ env = PoEnv

SpecPo == InitPo /\ [][PoNext]_vars

\* Two clients that each send one create, in any interleaving.
RaceEnv ==
    [PoEnv EXCEPT !.createItems = {HalfCent, NoAccount},
                  !.createArrays = {}]

InitCreateRace == InitStore /\ env = RaceEnv

CreateRaceNext ==
    \E p \in Clients :
        \/ PoCreateCheck(p)
        \/ PoCreatePersist(p)

SpecCreateRace == InitCreateRace /\ [][CreateRaceNext]_vars

\* Two clients that each send one update of the same stored order, in any
\* interleaving.
UpdateRaceEnv ==
    [PoEnv EXCEPT !.createPoNumbers = {}, !.createArrays = {},
                  !.updatePoNumbers = {NoValue},
                  !.updateArrays = {<<HalfCent>>, <<FiveAt2599>>}]

InitUpdateRace ==
    /\ orders = {[id |-> 1, poNumber |-> "PO-1", status |-> "DRAFT",
                  totalAmount |-> 2599000]}
    /\ lineItems = {[id |-> 1, purchaseOrderId |-> 1, quantity |-> 100000,
                     unitPrice |-> 259900, glAccount |-> 1,
                     amount |-> 2599000]}
    /\ accounts = SeedAccounts
    /\ proc = [p \in Connections |-> Idle]
    /\ hook = Hooks
    /\ env = UpdateRaceEnv

UpdateRaceNext ==
    \E p \in Clients :
        \/ PoUpdateFind(p)
        \/ PoUpdateDeleteMany(p)
        \/ PoUpdateCreateMany(p)
        \/ PoUpdateFindMany(p)
        \/ PoUpdatePersist(p)

SpecUpdateRace == InitUpdateRace /\ [][UpdateRaceNext]_vars

\* Two clients whose GL-account requests interleave.
GlEnv ==
    [clients |-> Clients, sequential |-> FALSE, history |-> FALSE,
     variant |-> "replace", pipe |-> TRUE,
     createPoNumbers |-> {}, createStatuses |-> {}, createItems |-> {},
     createArrays |-> {},
     updatePoNumbers |-> {}, updateStatuses |-> {}, updateItems |-> {},
     updateArrays |-> {},
     createCodes |-> {"2000", "3000"},
     updateCodes |-> {NoValue, "1000", "3000"},
     accountNames |-> {"Cash"},
     poQueries |-> {}, glQueries |-> {},
     clock |-> 0, chars |-> FALSE,
     mounted |-> {}, patches |-> {}, refetches |-> {}, pages |-> {},
     sizes |-> {}, pagers |-> {}, sorters |-> {}, terms |-> {}]

InitGl == InitStore /\ env = GlEnv

GlNext ==
    \E p \in Clients :
        \/ GlCreateCheck(p)
        \/ GlCreatePersist(p)
        \/ GlUpdateFind(p)
        \/ GlUpdateCheckCode(p)
        \/ GlUpdatePersist(p)
        \/ GlRemoveFind(p)
        \/ GlRemoveDelete(p)
        \/ Receive(p)

SpecGl == InitGl /\ [][GlNext]_vars

\* Two clients whose purchase-order creates and updates interleave with
\* removals of GL accounts.
OnAccount2 == Item(5000, 100, 2)

RefEnv ==
    [PoEnv EXCEPT !.createPoNumbers = {"PO-1"},
                  !.updatePoNumbers = {NoValue},
                  !.updateArrays = {<<HalfCent>>, <<OnAccount2>>}]

InitRef == InitStore /\ env = RefEnv

RefNext ==
    \E p \in Clients :
        \/ PoCreateCheck(p)
        \/ PoCreatePersist(p)
        \/ PoUpdateFind(p)
        \/ PoUpdateDeleteMany(p)
        \/ PoUpdateCreateMany(p)
        \/ PoUpdateFindMany(p)
        \/ PoUpdatePersist(p)
        \/ GlRemoveFind(p)
        \/ GlRemoveDelete(p)
        \/ Receive(p)

SpecRef == InitRef /\ [][RefNext]_vars

\* One client at a time: the GL-account service request by request, with
\* purchase orders created and removed in between.
GlSeqEnv ==
    [GlEnv EXCEPT !.clients = {1}, !.sequential = TRUE, !.history = TRUE,
                  !.createCodes = {"2000", "3000", "CASH"},
                  !.updateCodes = {NoValue, "1000", "3000", "", "cash",
                                   "1000 "},
                  !.createPoNumbers = {"PO-1"},
                  !.createStatuses = {NoValue},
                  !.createArrays = {<<HalfCent>>, <<OnAccount2>>}]

InitGlSeq == InitStore /\ env = GlSeqEnv

GlSeqNext ==
    \E p \in Clients :
        \/ GlCreateCheck(p)
        \/ GlCreatePersist(p)
        \/ GlUpdateFind(p)
        \/ GlUpdateCheckCode(p)
        \/ GlUpdatePersist(p)
        \/ GlRemoveFind(p)
        \/ GlRemoveDelete(p)
        \/ PoCreateCheck(p)
        \/ PoCreatePersist(p)
        \/ PoRemoveFind(p)
        \/ PoRemoveDelete(p)
        \/ Receive(p)

SpecGlSeq == InitGlSeq /\ [][GlSeqNext]_vars

\* Listing: tables of up to MaxTied rows and of 25, whose rows differ in
\* every sort field or are equal in createdAt (rows of one createMany, or
\* created within one millisecond).  Two clients page through the small
\* tables, one client through the table of 25.
Digit(n) == SubSeq(Alphabet, 3, 12)[n + 1]

PageOrder(i, tied) ==
    [id |-> i,
     poNumber |-> <<"P", "O", "-", Digit(i \div 10), Digit(i % 10)>>,
     vendorName |-> <<"A", "c", "m", "e">>,
     customerSO |-> <<>>,
     poDate |-> 1,
     status |-> "DRAFT",
     totalAmount |-> 0,
     createdAt |-> IF tied THEN 1 ELSE i]

PageAccount(i, tied) ==
    [id |-> i,
     accountCode |-> <<Digit(i \div 10), Digit(i % 10), "0", "0">>,
     accountName |-> <<"C", "a", "s", "h">>,
     createdAt |-> IF tied THEN 1 ELSE i]

TableSizes == {<<n, FALSE>> : n \in (0..MaxTied) \cup {25}}
                 \cup {<<n, TRUE>> : n \in 2..MaxTied}

PageQueries(sorts) ==
    {[NoQuery EXCEPT !.page = pg, !.limit = l, !.sortBy = sb] :
        pg \in {NoId} \cup (1..MaxPage), l \in {NoId, 1, 2}, sb \in sorts}

PageEnv ==
    [PoEnv EXCEPT !.createPoNumbers = {}, !.createArrays = {},
                  !.updatePoNumbers = {}, !.updateArrays = {},
                  !.chars = TRUE,
                  !.poQueries = PageQueries({NoValue, "poNumber"}),
                  !.glQueries = PageQueries({NoValue, "createdAt"})]

InitPage ==
    /\ \E t \in TableSizes :
          /\ orders = {PageOrder(i, t[2]) : i \in 1..t[1]}
          /\ accounts = {PageAccount(i, t[2]) : i \in 1..t[1]}
          /\ env = [PageEnv EXCEPT
                       !.clients = IF t[1] > MaxTied THEN {1} ELSE Clients]
    /\ lineItems = {}
    /\ proc = [p \in Connections |-> Idle]
    /\ hook = Hooks

FindAllNext ==
    \E p \in Clients :
        \/ PoFindAllCount(p)
        \/ PoFindAllFindMany(p)
        \/ GlFindAllCount(p)
        \/ GlFindAllFindMany(p)
        \/ Receive(p)

SpecPage == InitPage /\ [][FindAllNext]_vars

\* Filtering: one client lists any table made of these rows, with any
\* combination of the filters.  Dates are day numbers.
FilterOrder(id, poNumber, vendorName, customerSO, poDate, status) ==
    [id |-> id, poNumber |-> poNumber, vendorName |-> vendorName,
     customerSO |-> customerSO, poDate |-> poDate, status |-> status,
     totalAmount |-> 0, createdAt |-> id]

FilterOrders ==
    {FilterOrder(1, <<"P", "O", "-", "1">>, <<"X", "y">>, <<>>, 1, "DRAFT"),
     FilterOrder(2, <<"P", "O", "-", "2">>, <<"X", "y">>, <<"s", "o", "-", "a", "b", "c">>, 2, "SUBMITTED"),
     FilterOrder(3, <<"a", "b", "-", "3">>, <<"X", "y">>, <<"S", "O", "-", "7">>, 3, "DRAFT"),
     FilterOrder(4, <<"P", "O", "-", "4">>, <<"A", "B", "C", " ", "S", "u", "p", "p", "l", "y">>, <<>>, 2, "DRAFT")}

FilterAccount(id, accountCode, accountName) ==
    [id |-> id, accountCode |-> accountCode, accountName |-> accountName,
     createdAt |-> id]

FilterAccounts ==
    {FilterAccount(1, <<"1", "0", "0", "0">>,
                   <<"C", "a", "s", "h", " ", "a", "n", "d", " ", "E", "q", "u", "i", "v", "a", "l", "e", "n", "t", "s">>),
     FilterAccount(2, <<"2", "0", "0", "0">>, <<"A", "c", "c", "o", "u", "n", "t", "s", " ", "P", "a", "y", "a", "b", "l", "e">>),
     FilterAccount(3, <<"C", "A", "S", "H", "-", "3">>, <<"B", "a", "n", "k">>)}

SearchTerms == {<<>>, <<"c", "a", "s", "h">>, <<"a", "b", "c">>, <<"P", "O">>}

FilterEnv ==
    [PageEnv EXCEPT
        !.clients = {1},
        !.poQueries =
            {[NoQuery EXCEPT !.search = t, !.startDate = sd, !.endDate = ed,
                             !.status = st] :
                t \in SearchTerms, sd \in {NoId, 2}, ed \in {NoId, 2},
                st \in {NoValue, "DRAFT", "draft", ""}}
            \cup {[NoQuery EXCEPT !.sortBy = "status", !.sortOrder = so] :
                      so \in {NoValue, "asc"}},
        !.glQueries = {[NoQuery EXCEPT !.search = t] : t \in SearchTerms}]

InitFilter ==
    /\ orders \in SUBSET FilterOrders
    /\ accounts \in SUBSET FilterAccounts
    /\ lineItems = {}
    /\ proc = [p \in Connections |-> Idle]
    /\ hook = Hooks
    /\ env = FilterEnv

SpecFilter == InitFilter /\ [][FindAllNext]_vars

\* A list hook over a store that holds the rows above: the page mounts the
\* hook, and the user searches, pages, sorts and clears while the fetches
\* of earlier calls are in flight; responses arrive in any order.
Cash == <<"c", "a", "s", "h">>

HookAccounts ==
    {FilterAccount(1, <<"1", "0">>, <<"C", "a", "s", "h">>),
     FilterAccount(2, <<"2", "0">>, <<"B", "a", "n", "k">>),
     FilterAccount(3, <<"C", "A", "S", "H">>, <<"T", "i", "l", "l">>)}

\* What the tables report: the second page of ten; no sorter, the sorter of
\* the column createdAt, and that of the column description of
\* GLAccountList, which QueryGLAccountDto does not allow as sortBy.
SecondPage == [current |-> 2, pageSize |-> 10]
NoSorter == [field |-> NoValue, order |-> NoValue]
Ascending == [field |-> "createdAt", order |-> "ascend"]
ByDescription == [field |-> "description", order |-> "ascend"]

\* useGLAccounts: the search box emptied, a second page, pages of ten, and
\* the table with or without its pagination, unsorted or sorted by
\* description.  usePurchaseOrders: search by filter and by term, a second
\* page, pages of two, and the table with or without its pagination, sorted
\* by creation time, earliest first.
HookEnv(h) ==
    [FilterEnv EXCEPT
        !.clients = IF h = "gl" THEN {1, 2, 3} ELSE {1, 2},
        !.mounted = {h},
        !.poQueries = {}, !.glQueries = {},
        !.patches = {Patch({"search"},
                           [NoQuery EXCEPT
                               !.search = IF h = "gl" THEN <<>>
                                          ELSE <<"P", "O">>])},
        !.refetches = {Patch({}, NoQuery)},
        !.pages = {2},
        !.sizes = IF h = "gl" THEN {10} ELSE {2},
        !.pagers = {NoPager, SecondPage},
        !.sorters = IF h = "gl" THEN {NoSorter, ByDescription}
                    ELSE {Ascending},
        !.terms = {<<"P", "O">>}]

InitHook ==
    /\ orders = FilterOrders
    /\ accounts = HookAccounts
    /\ lineItems = {}
    /\ proc = [p \in Connections |-> Idle]
    /\ \E h \in {"gl", "po"} : env = HookEnv(h)
    /\ hook = Mounted

HookNext ==
    \/ SetFiltersGL
    \/ ClearFiltersGL
    \/ SetPageGL
    \/ SetPageSizeGL
    \/ HandleTableChangeGL
    \/ SetFiltersPO
    \/ SetSearchTermPO
    \/ ClearFiltersPO
    \/ SetPagePO
    \/ SetPageSizePO
    \/ HandleTableChangePO
    \/ \E p \in Connections :
        \/ GLAccountsEffects(p)
        \/ FetchGLAccounts(p)
        \/ GlFindAllArrive(p)
        \/ GlFindAllFindMany(p)
        \/ FetchGLAccountsResolve(p)
        \/ PurchaseOrdersEffects(p)
        \/ PurchaseOrdersTimer(p)
        \/ FetchPurchaseOrders(p)
        \/ PoFindAllArrive(p)
        \/ PoFindAllFindMany(p)
        \/ FetchPurchaseOrdersResolve(p)

SpecHook == InitHook /\ [][HookNext]_vars

\* A list hook over a store that changes: the page mounts the hook and
\* creates, updates and deletes records through it, and fetches the list
\* again.  The rows keep their creation times.  useGLAccounts has two
\* requests in flight at a time, usePurchaseOrders one.
HookCrudEnv(h) ==
    [PoEnv EXCEPT
        !.clients = IF h = "gl" THEN {1, 2} ELSE {1},
        !.mounted = {h},
        !.createPoNumbers = PoNumbers,
        !.createArrays = {<<TenAt2599>>},
        !.updatePoNumbers = {NoValue},
        !.updateStatuses = {"SUBMITTED"},
        !.updateArrays = {},
        !.createCodes = {"3000"},
        !.updateCodes = {NoValue},
        !.accountNames = {"Cash"},
        !.clock = MaxClock,
        !.refetches =
            IF h = "gl" THEN {Patch({}, NoQuery)}
            ELSE {Patch({}, NoQuery),
                  Patch({"sortOrder"}, [NoQuery EXCEPT !.sortOrder = "asc"])}]

InitHookCrud ==
    /\ orders = {}
    /\ accounts = {a @@ [createdAt |-> a.id] : a \in SeedAccounts}
    /\ lineItems = {}
    /\ proc = [p \in Connections |-> Idle]
    /\ \E h \in {"gl", "po"} : env = HookCrudEnv(h)
    /\ hook = Mounted

HookCrudNext ==
    \E p \in Connections :
        \/ GLAccountsEffects(p)
        \/ FetchGLAccounts(p)
        \/ GlFindAllArrive(p)
        \/ GlFindAllFindMany(p)
        \/ FetchGLAccountsResolve(p)
        \/ CreateGLAccount(p)
        \/ GlCreatePersist(p)
        \/ CreateGLAccountResolve(p)
        \/ UpdateGLAccount(p)
        \/ GlUpdatePersist(p)
        \/ UpdateGLAccountResolve(p)
        \/ DeleteGLAccount(p)
        \/ GlRemoveDelete(p)
        \/ DeleteGLAccountResolve(p)
        \/ PurchaseOrdersEffects(p)
        \/ FetchPurchaseOrders(p)
        \/ PoFindAllArrive(p)
        \/ PoFindAllFindMany(p)
        \/ FetchPurchaseOrdersResolve(p)
        \/ CreatePurchaseOrder(p)
        \/ PoCreatePersist(p)
        \/ CreatePurchaseOrderResolve(p)
        \/ UpdatePurchaseOrder(p)
        \/ PoUpdateDeleteMany(p)
        \/ PoUpdateFindMany(p)
        \/ PoUpdatePersist(p)
        \/ UpdatePurchaseOrderResolve(p)
        \/ DeletePurchaseOrder(p)
        \/ PoRemoveDelete(p)
        \/ DeletePurchaseOrderResolve(p)

SpecHookCrud == InitHookCrud /\ [][HookCrudNext]_vars

\* Both services, requests served one at a time.
Env ==
    [PoEnv EXCEPT !.sequential = TRUE,
                  !.createCodes = {"3000"},
                  !.updateCodes = {"3000"},
                  !.accountNames = {"Cash"}]

Init == InitStore /\ env = Env

Next == PoNext \/ GlNext

Spec == Init /\ [][Next]_vars

(***************************************************************************)
(* What the claims speak of.                                               *)
(***************************************************************************)
\* A response has been produced and not yet taken.
Done(p, op) == proc[p].pc = "done" /\ proc[p].op = op

Errors == {"NotFound", "Conflict", "BadRequest"}

\* The sum of the persisted amounts of an order's line items.
PersistedSum(rows, id) ==
    calculateTotalAmount(RowsToArray({l \in rows : l.purchaseOrderId = id}))

\* What a line item is, apart from its identifiers.
Content(l) ==
    [quantity |-> l.quantity, unitPrice |-> l.unitPrice,
     glAccount |-> l.glAccount]

\* quantity x unitPrice rounded to two decimals, stated on its own: the
\* multiple of 0.01 nearest to the product, the half going up.
IsRound2Product(amount, quantity, unitPrice) ==
    LET product == (quantity \div 100) * (unitPrice \div 100)
    IN /\ amount % 100 = 0
       /\ amount - product <= 50
       /\ product - amount < 50

\* The rows have exactly the contents of the array, each as often.
SameContents(rows, items) ==
    /\ Cardinality(rows) = Len(items)
    /\ \A i \in 1..Len(items) :
        Cardinality({l \in rows : Content(l) = Content(items[i])})
            = Cardinality({j \in 1..Len(items) :
                              Content(items[j]) = Content(items[i])})

\* The rows of order id before the request of client p.
RowsBefore(p) ==
    {l \in proc[p].before.lineItems : l.purchaseOrderId = proc[p].id}

\* C1: after a successful create, and after a successful update that supplies
\* lineItems, the order's totalAmount is the sum of the persisted amounts of
\* its line items.
C1_TotalIsSumOfPersisted ==
    \A p \in Clients :
        /\ proc[p].pc = "done" /\ proc[p].result = "ok"
        /\ \/ proc[p].op = "poCreate"
           \/ proc[p].op = "poUpdate" /\ proc[p].dto.hasLineItems
        => \A o \in FindOrderById(proc[p].id) :
              o.totalAmount = PersistedSum(lineItems, o.id)

\* C2: an update that ends in an error leaves the orders and the line items
\* as they were before the request.
C2_FailedUpdateChangesNothing ==
    \A p \in Clients :
        Done(p, "poUpdate") /\ proc[p].result \in Errors
        => /\ orders = proc[p].before.orders
           /\ lineItems = proc[p].before.lineItems

\* C3: after a successful update with lineItems L the order's line items are,
\* by content, exactly the elements of L not flagged _delete, each with the
\* rounded product as its amount, and totalAmount is the sum of these amounts.
C3_ReplacedByPayload ==
    \A p \in Clients :
        Done(p, "poUpdate") /\ proc[p].result = "ok" /\ proc[p].dto.hasLineItems
        => LET rows == FindLineItems(proc[p].id)
               kept == SelectSeq(proc[p].dto.lineItems, LAMBDA x : ~x.del)
           IN /\ SameContents(rows, kept)
              /\ \A l \in rows :
                    IsRound2Product(l.amount, l.quantity, l.unitPrice)
              /\ \A o \in FindOrderById(proc[p].id) :
                    o.totalAmount = PersistedSum(lineItems, o.id)

\* C3, the case of the text: the order held [A, B], the update supplied
\* [A, B flagged _delete, C] and the order now holds {A, C}.
C3_Witness ==
    \E p \in Clients :
        /\ Done(p, "poUpdate") /\ proc[p].result = "ok"
        /\ proc[p].dto.lineItems
              = <<HalfCent, Deleted(TenAt2599), FiveAt2599>>
        /\ SameContents(RowsBefore(p), <<HalfCent, TenAt2599>>)
        /\ SameContents(FindLineItems(proc[p].id), <<HalfCent, FiveAt2599>>)
        /\ \E o \in FindOrderById(proc[p].id) : o.totalAmount = 1299500 + 100

\* C4: an update that resubmits the order's persisted line items unchanged
\* leaves the contents of the line items and the totalAmount as they were.
C4_ResubmissionChangesNothing ==
    \A p \in Clients :
        /\ Done(p, "poUpdate") /\ proc[p].result = "ok"
        /\ proc[p].dto.hasLineItems
        /\ \A i \in 1..Len(proc[p].dto.lineItems) :
              ~proc[p].dto.lineItems[i].del
        /\ SameContents(RowsBefore(p), proc[p].dto.lineItems)
        => /\ SameContents(FindLineItems(proc[p].id), proc[p].dto.lineItems)
           /\ \A o \in FindOrderById(proc[p].id) :
                 \A b \in proc[p].before.orders :
                    b.id = o.id => o.totalAmount = b.totalAmount

\* C5: every persisted amount is quantity x unitPrice rounded to two
\* decimals, whatever amount the request carried.
C5_AmountIsRoundedProduct ==
    \A l \in lineItems : IsRound2Product(l.amount, l.quantity, l.unitPrice)

\* C5, the cases of the text: a create whose item of 10 at 25.99 carried
\* the amount 1.00 has stored 259.90, beside a row of 5 at 25.99 that holds
\* 129.95.
C5_Witness ==
    /\ \E p \in Clients :
          /\ Done(p, "poCreate") /\ proc[p].result = "ok"
          /\ proc[p].dto.lineItems = <<Priced>>
          /\ \E l \in lineItems :
                /\ l.purchaseOrderId = proc[p].id
                /\ l.quantity = 100000 /\ l.unitPrice = 259900
                /\ l.amount = 2599000
    /\ \E l \in lineItems :
          l.quantity = 50000 /\ l.unitPrice = 259900 /\ l.amount = 1299500

\* C5: a create called with a line item that has no quantity was answered
\* BadRequest after its lookup, and has stored nothing.
C5_MissingQuantityRefused ==
    \E p \in Clients :
        /\ Done(p, "poCreate") /\ ~env.pipe
        /\ proc[p].dto.lineItems = <<NoQuantity>>
        /\ proc[p].error = "DecimalError" /\ proc[p].result = "BadRequest"
        /\ proc[p].before.orders # {}
        /\ orders = proc[p].before.orders
        /\ lineItems = proc[p].before.lineItems

\* C10: a create whose poNumber belongs to a stored order ends in Conflict
\* and leaves the orders and the line items as they were.
C10_DuplicateCreateConflicts ==
    \A p \in Clients :
        /\ Done(p, "poCreate")
        /\ \E b \in proc[p].before.orders : b.poNumber = proc[p].dto.poNumber
        => /\ proc[p].result = "Conflict"
           /\ orders = proc[p].before.orders
           /\ lineItems = proc[p].before.lineItems

C10_Witness ==
    \E p \in Clients :
        /\ Done(p, "poCreate") /\ proc[p].result = "Conflict"
        /\ \E o \in orders :
              /\ o.poNumber = proc[p].dto.poNumber
              /\ FindLineItems(o.id) # {}

\* Every line item of the request of client p references a stored account.
ValidAccounts(p) ==
    \A i \in 1..Len(proc[p].dto.lineItems) :
        GlAccountExists(proc[p].dto.lineItems[i].glAccount)

\* C6: of two creates with the same poNumber that have both been answered,
\* one succeeded and the other was answered Conflict, and exactly one order
\* holds the poNumber.
C6_OneCreatedOtherConflict ==
    \A p, q \in Clients :
        /\ p # q
        /\ Done(p, "poCreate") /\ Done(q, "poCreate")
        /\ proc[p].dto.poNumber = proc[q].dto.poNumber
        /\ ValidAccounts(p) /\ ValidAccounts(q)
        => /\ Cardinality(FindOrderByPoNumber(proc[p].dto.poNumber)) = 1
           /\ {proc[p].result, proc[q].result} = {"ok", "Conflict"}

\* C6: both passed the pre-check and the loser met the unique constraint.
C6_Witness ==
    \E p, q \in Clients :
        /\ p # q
        /\ Done(p, "poCreate") /\ Done(q, "poCreate")
        /\ proc[p].dto.poNumber = proc[q].dto.poNumber
        /\ proc[p].result = "ok"
        /\ proc[q].error = "P2002" /\ proc[q].result = "Conflict"

\* C7: a GL create that passed the pre-check and met the unique constraint
\* is answered Conflict.
C7_LostRaceIsConflict ==
    \A p, q \in Clients :
        /\ p # q
        /\ Done(p, "glCreate") /\ Done(q, "glCreate")
        /\ proc[p].dto.accountCode = proc[q].dto.accountCode
        /\ proc[p].result = "ok"
        /\ proc[q].error = "P2002"
        => proc[q].result = "Conflict"

\* C8: no two stored purchase orders have the same poNumber.
C8_PoNumberUnique ==
    \A o1, o2 \in orders : o1.poNumber = o2.poNumber => o1.id = o2.id

\* C8: two orders are stored and a write has met the unique constraint.
C8_Witness ==
    /\ Cardinality(orders) = 2
    /\ \E p \in Clients :
          proc[p].op \in {"poCreate", "poUpdate"} /\ proc[p].error = "P2002"

\* C9: no two stored GL accounts have the same accountCode.
C9_AccountCodeUnique ==
    \A a1, a2 \in accounts : a1.accountCode = a2.accountCode => a1.id = a2.id

\* C9: three accounts are stored and a write has met the unique constraint.
C9_Witness ==
    /\ Cardinality(accounts) = 3
    /\ \E p \in Clients :
          proc[p].op \in {"glCreate", "glUpdate"} /\ proc[p].error = "P2002"

\* The order that the request of client p names was stored when it arrived.
TargetBefore(p) == {b \in proc[p].before.orders : b.id = proc[p].id}

\* What C11 says of the answered update of client p.
CollisionConflicts(p) ==
    /\ (\E b \in proc[p].before.orders :
           b.id # proc[p].id /\ b.poNumber = proc[p].dto.poNumber)
       => /\ proc[p].result = "Conflict"
          /\ orders = proc[p].before.orders
          /\ lineItems = proc[p].before.lineItems
    /\ (\E b \in TargetBefore(p) : b.poNumber = proc[p].dto.poNumber)
       => /\ proc[p].result # "Conflict"
          /\ ~proc[p].dto.hasLineItems => proc[p].result = "ok"

\* C11: an update that sets poNumber to the value of a different stored order
\* ends in Conflict and leaves the orders and the line items as they were,
\* with or without lineItems in the request; an update that sets poNumber to
\* the order's own value never ends in Conflict, and succeeds when it carries
\* nothing else.
C11_PoNumberCollisionConflicts ==
    \A p \in Clients :
        Done(p, "poUpdate") /\ proc[p].dto.poNumber # NoValue
        /\ TargetBefore(p) # {}
        => CollisionConflicts(p)

\* C11 for the poNumbers that are not empty.
C11_NonEmptyPoNumber ==
    \A p \in Clients :
        Done(p, "poUpdate") /\ Truthy(proc[p].dto.poNumber)
        /\ TargetBefore(p) # {}
        => CollisionConflicts(p)

\* C11: an update to the empty poNumber that another order holds, with
\* lineItems, was answered Conflict after the line items of its order had
\* been replaced.
C11_EmptyPoNumberReplaced ==
    \E p \in Clients :
        /\ Done(p, "poUpdate") /\ proc[p].result = "Conflict"
        /\ proc[p].dto.poNumber = "" /\ proc[p].dto.lineItems # <<>>
        /\ \E b \in proc[p].before.orders :
              b.id # proc[p].id /\ b.poNumber = ""
        /\ orders = proc[p].before.orders
        /\ lineItems # proc[p].before.lineItems

\* C11: the colliding update carried lineItems, and the order it named holds
\* line items still.
C11_Witness ==
    \E p \in Clients :
        /\ Done(p, "poUpdate") /\ proc[p].result = "Conflict"
        /\ proc[p].dto.lineItems # <<>>
        /\ FindLineItems(proc[p].id) # {}
        /\ lineItems = proc[p].before.lineItems
        /\ \E o \in orders :
              o.id # proc[p].id /\ o.poNumber = proc[p].dto.poNumber

\* The update of client p to poNumber n, which another order held as PO-1,
\* was refused by the lookup and nothing has changed.
RefusedAsPO1(p, n) ==
    /\ Done(p, "poUpdate") /\ proc[p].result = "Conflict"
    /\ proc[p].error = "ConflictException"
    /\ proc[p].dto.poNumber = n
    /\ \E b \in proc[p].before.orders :
          b.id # proc[p].id /\ b.poNumber = "PO-1"
    /\ orders = proc[p].before.orders
    /\ lineItems = proc[p].before.lineItems

\* C11: an update of one order to the poNumber of another in small letters
\* was answered Conflict and nothing has changed: the lookup by poNumber
\* compares under the collation.
C11_OtherCaseConflicts == \E p \in Clients : RefusedAsPO1(p, "po-1")

\* C11: the same for the poNumber of another order followed by a space.
C11_PaddedConflicts == \E p \in Clients : RefusedAsPO1(p, "PO-1 ")

\* C11: an update of the order that holds PO-1 to po-1, which differs from
\* its own poNumber letter for letter, was answered Conflict: the lookup
\* found the order itself.
C11_OwnOtherSpelling ==
    \E p \in Clients :
        /\ Done(p, "poUpdate") /\ proc[p].result = "Conflict"
        /\ proc[p].dto.poNumber = "po-1"
        /\ \E b \in TargetBefore(p) : b.poNumber = "PO-1"
        /\ Cardinality(proc[p].before.orders) = 1

\* C11: an update to the order's own poNumber has succeeded.
C11_SelfWitness ==
    \E p \in Clients :
        /\ Done(p, "poUpdate") /\ proc[p].result = "ok"
        /\ \E o \in FindOrderById(proc[p].id) :
              o.poNumber = proc[p].dto.poNumber
        /\ \E b \in TargetBefore(p) : b.poNumber = proc[p].dto.poNumber

\* C12: every stored line item references a stored GL account.
C12_LineItemsReferenceAccounts ==
    \A l \in lineItems : GlAccountExists(l.glAccount)

\* C12: a removal passed its usage check, a line item then took the account,
\* and the delete was restricted; another account has been removed.
C12_Witness ==
    /\ accounts # SeedAccounts
    /\ \E p \in Clients :
          /\ Done(p, "glRemove") /\ proc[p].error = "P2003"
          /\ \E l \in lineItems : l.glAccount = proc[p].id

\* The account that the request of client p names, as stored when it arrived,
\* and the number of line items that referenced it then.
AccountBefore(p) == {a \in proc[p].before.accounts : a.id = proc[p].id}

UsageBefore(p) ==
    Cardinality({l \in proc[p].before.lineItems : l.glAccount = proc[p].id})

\* The request of client p left the orders and the line items as they were.
OrdersAsBefore(p) ==
    /\ orders = proc[p].before.orders
    /\ lineItems = proc[p].before.lineItems

\* C13: a GL remove ends in NotFound when no account has the id, in Conflict
\* with nothing deleted when line items use the account, and otherwise
\* deletes exactly that account.
C13_RemoveGuarded ==
    \A p \in Clients :
        Done(p, "glRemove")
        => /\ OrdersAsBefore(p)
           /\ IF AccountBefore(p) = {}
              THEN /\ proc[p].result = "NotFound"
                   /\ accounts = proc[p].before.accounts
              ELSE IF UsageBefore(p) > 0
              THEN /\ proc[p].result = "Conflict"
                   /\ accounts = proc[p].before.accounts
              ELSE /\ proc[p].result = "ok"
                   /\ accounts = proc[p].before.accounts \ AccountBefore(p)

\* C13: a removal was refused for an account in use after another account
\* had been removed.
C13_Witness ==
    \E p \in Clients :
        /\ Done(p, "glRemove") /\ proc[p].result = "Conflict"
        /\ UsageBefore(p) > 0
        /\ Cardinality(accounts) < Cardinality(SeedAccounts)

\* C14: a GL create whose accountCode a stored account holds ends in
\* Conflict and leaves the accounts, the first one included, as they were.
C14_SecondCreateConflicts ==
    \A p \in Clients :
        /\ Done(p, "glCreate")
        /\ \E b \in proc[p].before.accounts :
              b.accountCode = proc[p].dto.accountCode
        => /\ proc[p].result = "Conflict"
           /\ accounts = proc[p].before.accounts
           /\ OrdersAsBefore(p)

\* C14: the account that holds the code was itself created by a request.
C14_Witness ==
    \E p \in Clients :
        /\ Done(p, "glCreate") /\ proc[p].result = "Conflict"
        /\ \E a \in accounts \ SeedAccounts :
              a.accountCode = proc[p].dto.accountCode

\* What C15 says of the answered GL update of client p.
UpdateGuarded(p) ==
    LET dto == proc[p].dto
        others(S) == {x \in S : x.id # proc[p].id}
    IN /\ OrdersAsBefore(p)
       /\ IF AccountBefore(p) = {}
          THEN /\ proc[p].result = "NotFound"
               /\ accounts = proc[p].before.accounts
          ELSE IF \E b \in others(proc[p].before.accounts) :
                     b.accountCode = dto.accountCode
          THEN /\ proc[p].result = "Conflict"
               /\ accounts = proc[p].before.accounts
          ELSE /\ proc[p].result = "ok"
               /\ others(accounts) = others(proc[p].before.accounts)
               /\ \A b \in AccountBefore(p) :
                     \E a \in accounts :
                        /\ a.id = b.id
                        /\ a.accountCode =
                              IF dto.accountCode = NoValue
                              THEN b.accountCode ELSE dto.accountCode
                        /\ a.accountName =
                              IF dto.accountName = NoValue
                              THEN b.accountName ELSE dto.accountName

\* C15: a GL update ends in NotFound when no account has the id, in Conflict
\* with nothing changed when the accountCode changes to the code of another
\* account, and otherwise succeeds, the own code included, changing the
\* supplied fields of that account and nothing else.
C15_UpdateGuarded ==
    \A p \in Clients : Done(p, "glUpdate") => UpdateGuarded(p)

\* No account stored when the request of client p arrived holds the
\* accountCode of the request in another spelling: the same under the
\* collation, and not letter for letter.
NoOtherSpelling(p) ==
    LET code == proc[p].dto.accountCode
    IN code # NoValue
       => \A b \in proc[p].before.accounts :
             SameChars(AsText(b.accountCode), AsText(code))
             => b.accountCode = code

\* C15 for the accountCodes that are not empty and that no account holds in
\* another spelling.
C15_NonEmptyCode ==
    \A p \in Clients :
        /\ Done(p, "glUpdate") /\ proc[p].dto.accountCode # ""
        /\ NoOtherSpelling(p)
        => UpdateGuarded(p)

\* C15: an update of one account to the code of another in small letters
\* was answered Conflict and nothing has changed: the lookup by accountCode
\* compares under the collation.
C15_OtherCaseConflicts ==
    \E p \in Clients :
        /\ Done(p, "glUpdate") /\ proc[p].result = "Conflict"
        /\ proc[p].dto.accountCode = "cash"
        /\ \E b \in proc[p].before.accounts :
              b.id # proc[p].id /\ b.accountCode = "CASH"
        /\ accounts = proc[p].before.accounts

\* C15: an update of the account that holds 1000 to its own code followed
\* by a space was answered Conflict: the lookup found the account itself.
C15_OwnPaddedConflicts ==
    \E p \in Clients :
        /\ Done(p, "glUpdate") /\ proc[p].result = "Conflict"
        /\ proc[p].dto.accountCode = "1000 "
        /\ \E b \in AccountBefore(p) : b.accountCode = "1000"
        /\ \A b \in proc[p].before.accounts :
              b.id # proc[p].id => b.accountCode \in {"2000", "3000"}

\* C15: an update to the empty accountCode that another account holds met
\* the unique index and was answered with INTERNAL_SERVER_ERROR.
C15_EmptyCodeFails ==
    \E p \in Clients :
        /\ Done(p, "glUpdate") /\ proc[p].dto.accountCode = ""
        /\ proc[p].error = "P2002"
        /\ proc[p].result = "InternalServerError"
        /\ \E b \in proc[p].before.accounts :
              b.id # proc[p].id /\ b.accountCode = ""

\* C15: an update that supplied a new accountCode and no accountName has
\* changed the code and kept the name.
C15_Witness ==
    \E p \in Clients :
        /\ Done(p, "glUpdate") /\ proc[p].result = "ok"
        /\ proc[p].dto.accountCode = "3000"
        /\ proc[p].dto.accountName = NoValue
        /\ \E a \in accounts :
              /\ a.id = proc[p].id /\ a.accountCode = "3000"
              /\ a.accountName = "Accounts Payable"

\* C15: an update to the account's own code has succeeded.
C15_SelfWitness ==
    \E p \in Clients :
        /\ Done(p, "glUpdate") /\ proc[p].result = "ok"
        /\ \E b \in AccountBefore(p) : b.accountCode = proc[p].dto.accountCode

\* C15: an update to the code of another account was refused.
C15_ConflictWitness ==
    \E p \in Clients :
        /\ Done(p, "glUpdate") /\ proc[p].result = "Conflict"
        /\ \E a \in accounts :
              a.id # proc[p].id /\ a.accountCode = proc[p].dto.accountCode

\* Client p takes the step that deletes in a purchase-order remove.
RemoveDeletes(p) ==
    /\ proc[p].op = "poRemove" /\ proc[p].pc = "delete"
    /\ proc'[p].pc = "done"

\* C16: every stored line item belongs to a stored order; and the delete of
\* a remove, for an order that is stored, succeeds whatever the order holds,
\* takes away that order and its line items and leaves every other order,
\* every other line item and every GL account as it was.
C16_RemoveCascades ==
    /\ [](\A l \in lineItems : \E o \in orders : o.id = l.purchaseOrderId)
    /\ [][\A p \in Clients :
            RemoveDeletes(p) /\ (\E o \in orders : o.id = proc[p].id)
            => /\ proc'[p].result = "ok"
               /\ orders' = {o \in orders : o.id # proc[p].id}
               /\ lineItems' =
                     {l \in lineItems : l.purchaseOrderId # proc[p].id}
               /\ accounts' = accounts]_vars

\* C16: an order was removed while an update was replacing its line items;
\* the update's insert was rejected, and another order keeps its line items.
C16_Witness ==
    \E p, q \in Clients :
        /\ Done(p, "poRemove") /\ proc[p].result = "ok"
        /\ Done(q, "poUpdate") /\ proc[q].id = proc[p].id
        /\ proc[q].error = "P2003"
        /\ FindLineItems(proc[p].id) = {}
        /\ \E l \in lineItems : l.purchaseOrderId # proc[p].id

\* C17: findOne, update and remove of an id that no stored order has end in
\* NotFound and leave the orders and the line items as they were, whatever
\* else the request carries.
C17_AbsentIdNotFound ==
    \A p \in Clients :
        /\ proc[p].pc = "done"
        /\ proc[p].op \in {"poFindOne", "poUpdate", "poRemove"}
        /\ TargetBefore(p) = {}
        => /\ proc[p].result = "NotFound"
           /\ OrdersAsBefore(p)

\* C17: the update of an absent id carried the poNumber of a stored order
\* and lineItems.
C17_Witness ==
    \E p \in Clients :
        /\ Done(p, "poUpdate") /\ proc[p].result = "NotFound"
        /\ proc[p].dto.lineItems # <<>>
        /\ FindOrderByPoNumber(proc[p].dto.poNumber) # {}
        /\ lineItems # {}

\* C17: a findOne and a remove of an absent id were answered NotFound.
C17_FindOneWitness ==
    \E p \in Clients :
        /\ Done(p, "poFindOne") /\ proc[p].result = "NotFound" /\ orders # {}

C17_RemoveWitness ==
    \E p \in Clients :
        /\ Done(p, "poRemove") /\ proc[p].result = "NotFound" /\ orders # {}

\* The rows that match the findAll of client p, and its sort.
Matching(p) ==
    IF proc[p].op = "poFindAll"
    THEN {o \in orders : PoWhere(o, proc[p].query)}
    ELSE {a \in accounts : GlWhere(a, proc[p].query)}

SortByOf(p) ==
    IF proc[p].query.sortBy # NoValue THEN proc[p].query.sortBy
    ELSE IF proc[p].op = "poFindAll" THEN "createdAt" ELSE "accountCode"

SortOrderOf(p) ==
    IF proc[p].query.sortOrder # NoValue THEN proc[p].query.sortOrder
    ELSE IF proc[p].op = "poFindAll" THEN "desc" ELSE "asc"

Listed(p) == proc[p].pc = "done" /\ proc[p].op \in {"poFindAll", "glFindAll"}

\* The response of client p is page pg of l rows of a sorted list of the n
\* matching rows: total n, totalPages ceil(n / l), and data the rows at
\* positions (pg - 1) * l + 1 through min(pg * l, n).
IsPageOfSorted(p) ==
    LET f == proc[p].found
        pg == proc[p].query.page
        l == proc[p].query.limit
        n == Cardinality(Matching(p))
        last == IF pg * l < n THEN pg * l ELSE n
        before(x, y) == GoesBefore(x, y, SortByOf(p), SortOrderOf(p))
    IN /\ f.total = n
       /\ f.totalPages * l >= n /\ (f.totalPages - 1) * l < n
       /\ f.totalPages >= 0
       /\ Len(f.data) = IF last > (pg - 1) * l THEN last - (pg - 1) * l ELSE 0
       /\ Range(f.data) \subseteq Matching(p)
       /\ \A i, j \in 1..Len(f.data) :
             i < j => f.data[i] # f.data[j] /\ ~before(f.data[j], f.data[i])
       /\ \A i \in 1..Len(f.data) :
             LET k == (pg - 1) * l + i
             IN /\ Cardinality({x \in Matching(p) : before(x, f.data[i])}) < k
                /\ Cardinality({x \in Matching(p) : ~before(f.data[i], x)})
                      >= k

\* Two responses to the same findAll but for the page.
SameListing(p, q) ==
    /\ Listed(p) /\ Listed(q) /\ proc[p].op = proc[q].op
    /\ proc[p].query.page # NoId /\ proc[q].query.page # NoId
    /\ proc[p].query.limit # NoId
    /\ [proc[p].query EXCEPT !.page = NoId]
          = [proc[q].query EXCEPT !.page = NoId]

\* Each response is a page of a sorted list of the matching rows.
EachPageOfSorted ==
    \A p \in Clients :
        Listed(p) /\ proc[p].query.page # NoId /\ proc[p].query.limit # NoId
        => IsPageOfSorted(p)

\* Different pages of one listing share no row, and pages 1 and 2 of a
\* listing of two pages hold every matching row.
PagesPartition ==
    \A p, q \in Clients :
        SameListing(p, q) /\ proc[p].query.page # proc[q].query.page
        => /\ Range(proc[p].found.data) \cap Range(proc[q].found.data) = {}
           /\ proc[p].found.totalPages = 2
              /\ {proc[p].query.page, proc[q].query.page} = {1, 2}
              => Range(proc[p].found.data) \cup Range(proc[q].found.data)
                    = Matching(p)

\* C18: every findAll response over an unmodified store is page p of l rows
\* of the sorted list of the n matching rows, with total n and totalPages
\* ceil(n / l), so that the pages of a listing partition the matching rows.
C18_PagesOfSortedList == EachPageOfSorted /\ PagesPartition

\* C18, the case of the text: page 2 with limit 10 over 25 rows holds 10
\* rows, total 25, totalPages 3.
C18_Example ==
    \E p \in Clients :
        /\ Listed(p) /\ proc[p].op = "poFindAll"
        /\ proc[p].query.page = 2 /\ proc[p].query.limit = NoId
        /\ Len(proc[p].found.data) = 10
        /\ proc[p].found.total = 25 /\ proc[p].found.totalPages = 3
        /\ proc[p].found.limit = 10

\* The letters, for the claims: the i-th capital and the i-th small letter.
Capitals ==
    <<"A", "B", "C", "D", "E", "F", "G", "H", "I", "J", "K", "L", "M",
      "N", "O", "P", "Q", "R", "S", "T", "U", "V", "W", "X", "Y", "Z">>

SameLetter(c, d) ==
    \/ c = d
    \/ \E i \in 1..Len(Capitals) :
          {c, d} = {Capitals[i], SubSeq(Alphabet, 13, 38)[i]}

\* The term occurs in the text, letter for letter.
IsSubstring(term, text) ==
    \E i, j \in 0..Len(text) : i <= j /\ SubSeq(text, i + 1, j) = term

\* The term occurs in the text, the case of the letters apart.
IsSubstringAnyCase(term, text) ==
    \E i, j \in 0..Len(text) :
        /\ j - i = Len(term)
        /\ \A k \in 1..Len(term) : SameLetter(text[i + k], term[k])

\* The order satisfies the filters other than the search, a filter that is
\* omitted restricting nothing.
InDatesAndStatus(o, query) ==
    /\ query.startDate = NoId \/ query.startDate <= o.poDate
    /\ query.endDate = NoId \/ o.poDate <= query.endDate
    /\ query.status = NoValue \/ o.status = query.status

\* The two statuses are the same, the case of the letters apart.
SameStatusAnyCase(a, b) ==
    /\ Len(StatusText(a)) = Len(StatusText(b))
    /\ \A k \in 1..Len(StatusText(a)) :
          SameLetter(StatusText(a)[k], StatusText(b)[k])

\* The same, a status that is omitted or empty restricting nothing, and a
\* status that is given compared without regard to the case of the letters.
InDatesAndGivenStatus(o, query) ==
    /\ query.startDate = NoId \/ query.startDate <= o.poDate
    /\ query.endDate = NoId \/ o.poDate <= query.endDate
    /\ query.status \in {NoValue, ""}
       \/ SameStatusAnyCase(o.status, query.status)

\* The response of client p counts and holds exactly the rows of S.
FindsExactly(p, S) ==
    /\ proc[p].found.total = Cardinality(S)
    /\ Range(proc[p].found.data) = S
    /\ Len(proc[p].found.data) = Cardinality(S)

C19_EmptyStatus ==
    \E p \in Clients :
        /\ Done(p, "poFindAll")
        /\ proc[p].query.status = ""
        /\ proc[p].query.search = <<"P", "O">>
        /\ Cardinality(orders) = 4
        /\ {o.id : o \in Range(proc[p].found.data)} = {1, 2, 4}

\* C19: the status was given in small letters, and the orders found are the
\* three whose status is DRAFT.
C19_StatusOtherCase ==
    \E p \in Clients :
        /\ Done(p, "poFindAll")
        /\ proc[p].query.status = "draft"
        /\ proc[p].query.search = <<>>
        /\ proc[p].query.startDate = NoId /\ proc[p].query.endDate = NoId
        /\ Cardinality(orders) = 4
        /\ proc[p].found.total = 3
        /\ {o.id : o \in Range(proc[p].found.data)} = {1, 3, 4}

\* C20: a GL findAll with a search term returns exactly the accounts whose
\* accountCode or accountName contains the term, the case of the letters
\* apart.
C20_SearchAnyCase ==
    \A p \in Clients :
        Done(p, "glFindAll") /\ proc[p].query.search # <<>>
        => FindsExactly(p,
              {a \in accounts :
                  \/ IsSubstringAnyCase(proc[p].query.search, a.accountCode)
                  \/ IsSubstringAnyCase(proc[p].query.search,
                                        a.accountName)})

\* C20, the case of the text: "cash" finds "Cash and Equivalents", and the
\* account with code CASH-3, and not Accounts Payable.
C20_Witness ==
    \E p \in Clients :
        /\ Done(p, "glFindAll")
        /\ proc[p].query.search = <<"c", "a", "s", "h">>
        /\ accounts = FilterAccounts
        /\ {a.id : a \in Range(proc[p].found.data)} = {1, 3}
        /\ proc[p].found.total = 2

\* C21: an order created without a status is stored with status DRAFT, and
\* an order created with a status is stored with that status.
C21_StatusDefaultsToDraft ==
    \A p \in Clients :
        Done(p, "poCreate") /\ proc[p].result = "ok"
        => \E o \in orders :
              /\ o.id = proc[p].id
              /\ o.status = IF proc[p].dto.status = NoValue THEN "DRAFT"
                            ELSE proc[p].dto.status

\* C21, the default alone: an order created without a status is stored and
\* returned with status DRAFT.
C21_DefaultIsDraft ==
    \A p \in Clients :
        /\ Done(p, "poCreate") /\ proc[p].result = "ok"
        /\ proc[p].dto.status = NoValue
        => /\ proc[p].row.status = "DRAFT"
           /\ \E o \in orders : o.id = proc[p].id /\ o.status = "DRAFT"

\* C21: a create with the empty status has stored DRAFT.
C21_EmptyIsDraft ==
    \E p \in Clients :
        /\ Done(p, "poCreate") /\ proc[p].result = "ok"
        /\ proc[p].dto.status = ""
        /\ \E o \in orders : o.id = proc[p].id /\ o.status = "DRAFT"

\* C21: over HTTP a body that is valid but for its status SUBMITTED was
\* answered 400, and no order stored.
C21_StatusRefused ==
    \E p \in Clients :
        /\ env.pipe
        /\ Done(p, "poCreate") /\ proc[p].result = "BadRequest"
        /\ proc[p].dto.status = "SUBMITTED"
        /\ CreateBodyValid([proc[p].dto EXCEPT !.status = NoValue])
        /\ orders = proc[p].before.orders

\* C21: the service, called directly with status SUBMITTED, has stored it
\* beside an order that was created without a status and holds DRAFT.
C21_Witness ==
    \E p \in Clients :
        /\ Done(p, "poCreate") /\ proc[p].result = "ok"
        /\ proc[p].dto.status = "SUBMITTED"
        /\ \E o \in orders : o.id = proc[p].id /\ o.status = "SUBMITTED"
        /\ \E o \in orders : o.id # proc[p].id /\ o.status = "DRAFT"

\* The order of client p's request is as an update with p's lineItems alone
\* leaves it: the line items are, by content, the elements not flagged
\* _delete, each amount the rounded product, and totalAmount their sum.
AsUpdatedBy(p) ==
    LET rows == FindLineItems(proc[p].id)
    IN /\ SameContents(rows,
                       SelectSeq(proc[p].dto.lineItems, LAMBDA x : ~x.del))
       /\ \A l \in rows : IsRound2Product(l.amount, l.quantity, l.unitPrice)
       /\ \A o \in FindOrderById(proc[p].id) :
             o.totalAmount = PersistedSum(lineItems, o.id)

\* C22: when two updates of one order that both supply lineItems have been
\* answered, the order's totalAmount is the sum of the amounts of its line
\* items, and line items and total are those one of the two updates leaves
\* when it runs last.
C22_ConcurrentUpdatesSerialize ==
    \A p, q \in Clients :
        /\ p # q
        /\ Done(p, "poUpdate") /\ Done(q, "poUpdate")
        /\ proc[p].id = proc[q].id
        /\ proc[p].result = "ok" /\ proc[q].result = "ok"
        /\ proc[p].dto.hasLineItems /\ proc[q].dto.hasLineItems
        => AsUpdatedBy(p) \/ AsUpdatedBy(q)

\* C22: both updates have been answered and the order holds the line items
\* of both, which neither update leaves on its own.
C22_BothPayloadsStored ==
    \E p, q \in Clients :
        /\ p # q
        /\ Done(p, "poUpdate") /\ Done(q, "poUpdate")
        /\ proc[p].result = "ok" /\ proc[q].result = "ok"
        /\ proc[p].dto.lineItems = <<HalfCent>>
        /\ proc[q].dto.lineItems = <<FiveAt2599>>
        /\ SameContents(FindLineItems(proc[p].id), <<HalfCent, FiveAt2599>>)

\* The line items of the orders other than the one client p's request names
\* are as they were, and each such order whose totalAmount was the sum of
\* its line items' amounts has it so still.
OtherOrdersUntouched(p) ==
    /\ {l \in lineItems : l.purchaseOrderId # proc[p].id}
          = {l \in proc[p].before.lineItems : l.purchaseOrderId # proc[p].id}
    /\ \A o \in orders :
          /\ o.id # proc[p].id
          /\ o \in proc[p].before.orders
          /\ o.totalAmount = PersistedSum(proc[p].before.lineItems, o.id)
          => o.totalAmount = PersistedSum(lineItems, o.id)

\* C23: with either strategy, an update of order X leaves the line items of
\* every other order as they were, also when its payload names one of them
\* by id, and the totalAmount of every other order the sum of its line
\* items' amounts.
C23_UpdateChangesOwnLineItemsOnly ==
    \A p \in Clients : Done(p, "poUpdate") => OtherOrdersUntouched(p)

\* C23 for the full replace alone.
C23_FullReplaceChangesOwnLineItemsOnly ==
    \A p \in Clients :
        Done(p, "poUpdate") /\ env.variant = "replace"
        => OtherOrdersUntouched(p)

\* C23: a full-replace update whose payload named a line item of another
\* order has succeeded.
C23_FullReplaceWitness ==
    \E p \in Clients :
        /\ Done(p, "poUpdate") /\ proc[p].result = "ok"
        /\ env.variant = "replace"
        /\ \E i \in 1..Len(proc[p].dto.lineItems) :
              \E l \in lineItems :
                 /\ l.id = proc[p].dto.lineItems[i].id
                 /\ l.purchaseOrderId # proc[p].id

\* Row l is row b with the fields that the payload element supplies, its
\* amount the rounded product when quantity or unitPrice is supplied;
\* Supplied says which quantities and unit prices count as supplied.
IsUpdateOf(l, b, element, Supplied(_)) ==
    /\ l.id = b.id /\ l.purchaseOrderId = b.purchaseOrderId
    /\ l.quantity = IF Supplied(element.quantity) THEN element.quantity
                    ELSE b.quantity
    /\ l.unitPrice = IF Supplied(element.unitPrice) THEN element.unitPrice
                     ELSE b.unitPrice
    /\ l.glAccount = IF element.glAccount = NoId THEN b.glAccount
                     ELSE element.glAccount
    /\ IF Supplied(element.quantity) \/ Supplied(element.unitPrice)
       THEN IsRound2Product(l.amount, l.quantity, l.unitPrice)
       ELSE l.amount = b.amount

\* After a successful update by the differential variant the order's line
\* items are exactly: those it had that the payload does not name,
\* unchanged; those the payload names by id without _delete, with the
\* supplied fields applied and the amount recomputed when quantity or
\* unitPrice is supplied, the persisted value standing in for the side not
\* supplied; and one new item per element with neither id nor _delete.
\* Items named by id with _delete are gone, and an element with _delete and
\* no id has no effect.
DifferentialResult(Supplied(_)) ==
    \A p \in Clients :
        /\ Done(p, "poUpdate") /\ proc[p].result = "ok"
        /\ proc[p].dto.hasLineItems /\ env.variant = "differential"
        => LET items == proc[p].dto.lineItems
               rows == FindLineItems(proc[p].id)
               old == {b.id : b \in RowsBefore(p)}
               elements(b, del) ==
                   {i \in 1..Len(items) :
                       items[i].id = b.id /\ items[i].del = del}
           IN /\ \A b \in RowsBefore(p) :
                    IF elements(b, TRUE) # {}
                    THEN \A l \in rows : l.id # b.id
                    ELSE IF elements(b, FALSE) # {}
                    THEN \A i \in elements(b, FALSE) :
                            \E l \in rows :
                               IsUpdateOf(l, b, items[i], Supplied)
                    ELSE b \in rows
              /\ SameContents({l \in rows : l.id \notin old},
                              SelectSeq(items,
                                        LAMBDA x : x.id = NoId /\ ~x.del))
              /\ \A l \in rows :
                    l.id \notin old
                    => IsRound2Product(l.amount, l.quantity, l.unitPrice)

\* C24 as stated: the result of a differential update is as above, every
\* quantity and unitPrice that the payload element carries being supplied.
C24_DifferentialResult == DifferentialResult(LAMBDA x : x # NoDecimal)

\* C24: the result of a differential update is as above, where a quantity or
\* a unitPrice of 0 counts as not supplied: the row keeps its persisted
\* value, which also enters the amount.
C24_DifferentialResultNonZero ==
    DifferentialResult(LAMBDA x : x # NoDecimal /\ x # 0)

\* C24: the update named line item 1 with quantity 0 and unitPrice 0.01 and
\* succeeded; the row has its former quantity 10, the unitPrice 0.01 and
\* the amount 0.10.
C24_ZeroQuantityKept ==
    \E p \in Clients :
        /\ Done(p, "poUpdate") /\ proc[p].result = "ok"
        /\ env.variant = "differential" /\ ~env.pipe
        /\ proc[p].dto.lineItems = <<Named(1, 0, 100, NoId)>>
        /\ \E b \in RowsBefore(p) : b.id = 1 /\ b.quantity = 100000
        /\ \E l \in FindLineItems(proc[p].id) :
              /\ l.id = 1 /\ l.quantity = 100000 /\ l.unitPrice = 100
              /\ l.amount = 1000

\* C24: over HTTP the body with a quantity of 0 is answered 400 and the
\* store is as it was.
C24_ZeroRefused ==
    \E p \in Clients :
        /\ Done(p, "poUpdate") /\ env.pipe
        /\ proc[p].dto.lineItems = <<Named(1, 0, 100, NoId)>>
        /\ proc[p].result = "BadRequest"
        /\ proc[p].before.orders # {} /\ orders = proc[p].before.orders
        /\ lineItems = proc[p].before.lineItems

\* C24: of two line items the one named with a quantity alone has that
\* quantity and the amount recomputed with its persisted unitPrice, and
\* the one not named is as it was.
C24_Witness ==
    \E p \in Clients :
        /\ Done(p, "poUpdate") /\ proc[p].result = "ok"
        /\ env.variant = "differential"
        /\ proc[p].dto.lineItems = <<Named(1, 50000, NoDecimal, NoId)>>
        /\ Cardinality(RowsBefore(p)) = 2
        /\ \E b \in RowsBefore(p) : b.id = 1 /\ b.amount = 2599000
        /\ \E l \in FindLineItems(proc[p].id) :
              /\ l.id = 1 /\ l.quantity = 50000 /\ l.unitPrice = 259900
              /\ l.amount = 1299500
        /\ \E l \in FindLineItems(proc[p].id) :
              l.id # 1 /\ l \in RowsBefore(p)

\* C24: the item named with _delete is gone and the element without id is
\* a new item.
C24_DeleteWitness ==
    \E p \in Clients :
        /\ Done(p, "poUpdate") /\ proc[p].result = "ok"
        /\ env.variant = "differential"
        /\ proc[p].dto.lineItems
              = <<Deleted(Named(1, 50000, 259900, 1)), HalfCent>>
        /\ \E b \in RowsBefore(p) : b.id = 1
        /\ \A l \in FindLineItems(proc[p].id) : l.id # 1
        /\ SameContents(FindLineItems(proc[p].id), <<HalfCent>>)

\* C25: an update that omits lineItems leaves every line item as it was, by
\* identifier, fields and amount; when it succeeds, the order has the
\* poNumber and status of the request where the request carries them and
\* its former ones where not, its totalAmount is the sum of the amounts of
\* its line items, and every other order is as it was.
C25_HeaderUpdateKeepsLineItems ==
    \A p \in Clients :
        Done(p, "poUpdate") /\ ~proc[p].dto.hasLineItems
        => /\ lineItems = proc[p].before.lineItems
           /\ proc[p].result = "ok"
              => /\ {o \in orders : o.id # proc[p].id}
                       = {b \in proc[p].before.orders : b.id # proc[p].id}
                 /\ \A b \in TargetBefore(p) :
                       \E o \in orders :
                          /\ o.id = b.id
                          /\ o.poNumber =
                                IF proc[p].dto.poNumber = NoValue
                                THEN b.poNumber ELSE proc[p].dto.poNumber
                          /\ o.status =
                                IF proc[p].dto.status = NoValue
                                THEN b.status ELSE proc[p].dto.status
                          /\ o.totalAmount = PersistedSum(lineItems, o.id)

\* C25: an update with a poNumber and no status has renamed an order that
\* was created as SUBMITTED and keeps that status and its line items.
C25_Witness ==
    \E p \in Clients :
        /\ Done(p, "poUpdate") /\ proc[p].result = "ok"
        /\ ~proc[p].dto.hasLineItems
        /\ proc[p].dto.poNumber = "PO-2" /\ proc[p].dto.status = NoValue
        /\ \E b \in TargetBefore(p) :
              b.poNumber = "PO-1" /\ b.status = "SUBMITTED"
        /\ \E o \in orders :
              /\ o.id = proc[p].id /\ o.poNumber = "PO-2"
              /\ o.status = "SUBMITTED"
        /\ RowsBefore(p) # {} /\ FindLineItems(proc[p].id) = RowsBefore(p)

\* The totalAmount that create stores for an order with these line items:
\* the sum of the products quantity x unitPrice, as the column holds it.
TotalOfCreate(rows) ==
    ToDecimal2(calculateTotalAmount(LineItemsWithAmounts(RowsToArray(rows))))

\* C26: an update without lineItems of an order that is as create stored it
\* stores the totalAmount that create stored.
C26_UpdateKeepsCreatedTotal ==
    \A p \in Clients :
        Done(p, "poUpdate") /\ proc[p].result = "ok"
        /\ ~proc[p].dto.hasLineItems
        => \A b \in TargetBefore(p) :
              b.totalAmount = TotalOfCreate(RowsBefore(p))
              => \E o \in orders :
                    o.id = b.id /\ o.totalAmount = b.totalAmount

\* C27: a create stores the order and all of its line items or nothing.
\* Every stored order is the order of one answered successful create and
\* holds exactly the line items of that request; a create that has failed or
\* is not yet answered has stored neither an order nor a line item.
C27_CreateIsAllOrNothing ==
    LET created == {p \in Clients :
                       Done(p, "poCreate") /\ proc[p].result = "ok"}
    IN /\ \A o \in orders :
             \E p \in created :
                /\ proc[p].id = o.id
                /\ SameContents(FindLineItems(o.id), proc[p].dto.lineItems)
       /\ Cardinality(orders) = Cardinality(created)
       /\ \A l \in lineItems : \E o \in orders : o.id = l.purchaseOrderId

\* C27: a create whose first line item is valid and whose second references
\* an account that does not exist has failed, and the store is empty.
C27_Witness ==
    \E p \in Clients :
        /\ Done(p, "poCreate") /\ proc[p].error = "P2003"
        /\ proc[p].result = "BadRequest"
        /\ proc[p].dto.lineItems = <<HalfCent, NoAccount>>
        /\ orders = {} /\ lineItems = {}

\* C28: an update that changes poNumber, passed the pre-check and met the
\* unique constraint at its final persist is answered Conflict, not
\* BadRequest.
C28_LateCollisionIsConflict ==
    \A p \in Clients :
        Done(p, "poUpdate") /\ proc[p].error = "P2002"
        => proc[p].result = "Conflict" /\ proc[p].result # "BadRequest"

\* C28: the update met the constraint because a create of the other client
\* took the number after the pre-check; that create succeeded.
C28_Witness ==
    \E p, q \in Clients :
        /\ Done(p, "poUpdate") /\ proc[p].error = "P2002"
        /\ proc[p].result = "Conflict"
        /\ Done(q, "poCreate") /\ proc[q].result = "ok"
        /\ proc[q].dto.poNumber = proc[p].dto.poNumber
        /\ \E o \in orders :
              o.id = proc[q].id /\ o.poNumber = proc[p].dto.poNumber
        /\ \E o \in orders : o.id = proc[p].id

\* C29: a successful full-replace update whose lineItems is empty, or holds
\* only elements flagged _delete, leaves the order stored with no line item
\* and totalAmount 0.
C29_EmptyPayloadRemovesAll ==
    \A p \in Clients :
        /\ Done(p, "poUpdate") /\ proc[p].result = "ok"
        /\ env.variant = "replace" /\ proc[p].dto.hasLineItems
        /\ \A i \in 1..Len(proc[p].dto.lineItems) :
              proc[p].dto.lineItems[i].del
        => /\ FindLineItems(proc[p].id) = {}
           /\ \E o \in orders : o.id = proc[p].id /\ o.totalAmount = 0

\* C29: an order that create stored with line items is stored without any
\* after an update with an empty lineItems.
C29_Witness ==
    \E p \in Clients :
        /\ Done(p, "poUpdate") /\ proc[p].result = "ok"
        /\ proc[p].dto.hasLineItems /\ proc[p].dto.lineItems = <<>>
        /\ RowsBefore(p) # {}
        /\ \E b \in TargetBefore(p) : b.totalAmount > 0
        /\ FindLineItems(proc[p].id) = {}
        /\ \E o \in orders : o.id = proc[p].id /\ o.totalAmount = 0

\* C29: the same after an update whose only element is flagged _delete.
C29_AllDeletedWitness ==
    \E p \in Clients :
        /\ Done(p, "poUpdate") /\ proc[p].result = "ok"
        /\ proc[p].dto.lineItems = <<Deleted(HalfCent)>>
        /\ RowsBefore(p) # {}
        /\ FindLineItems(proc[p].id) = {}
        /\ \E o \in orders : o.id = proc[p].id /\ o.totalAmount = 0

\* The responses the backend gives to a query of hook h over the store.
Answers(h, query) ==
    LET rows == IF h = "gl" THEN {a \in accounts : GlWhere(a, query)}
                ELSE {o \in orders : PoWhere(o, query)}
        sortBy == IF query.sortBy # NoValue THEN query.sortBy
                  ELSE IF h = "gl" THEN "accountCode" ELSE "createdAt"
        sortOrder == IF query.sortOrder # NoValue THEN query.sortOrder
                     ELSE IF h = "gl" THEN "asc" ELSE "desc"
    IN {PageResponse(array, Cardinality(rows), query) :
           array \in SortedArrays(rows, sortBy, sortOrder)}

\* The hook shows a response: its rows, in the order the hook keeps them,
\* and its pagination.
Shows(h, found) ==
    /\ hook[h].records = IF h = "po" THEN SortRecent(found.data)
                         ELSE found.data
    /\ hook[h].pagination = [current |-> found.page, pageSize |-> found.limit,
                             total |-> found.total,
                             totalPages |-> found.totalPages]

\* The hook has fetched, nothing of it is pending (no render, no timer, no
\* request), and the request it issued last was one the backend accepts.
Settled(h) ==
    /\ h \in env.mounted
    /\ hook[h].issued # NoQuery
    /\ IF h = "gl" THEN GlQueryValid(hook[h].issued)
       ELSE PoQueryValid(hook[h].issued)
    /\ hook[h].effects = "none" /\ hook[h].timers = <<>>
    /\ \A p \in Connections : proc[p].pc = "idle"

\* C30: when every fetch of a hook has been answered, the hook's records
\* and pagination are those of the fetch issued last, in whatever order the
\* responses arrived.
C30_LatestFetchShown ==
    \A h \in DOMAIN hook :
        Settled(h) => \E found \in Answers(h, hook[h].issued) : Shows(h, found)

\* The hooks at rest show the response to the request they issued last when
\* the responses arrive in the order of the requests.
C30_Settled == \E h \in DOMAIN hook :
    /\ Settled(h)
    /\ hook[h].issued.search # <<>>
    /\ \E found \in Answers(h, hook[h].issued) : Shows(h, found)

====
